---- MODULE Spec2Model ----
(***************************************************************************)
(* A model of the turbo `run` command: run.run / run.runOperation /        *)
(* run.executeTasks / execContext.exec (cli/internal/run/run.go) together  *)
(* with the asynchronous write-through cache (cli/internal/cache/          *)
(* async_cache.go) that exec saves outputs to.                             *)
(*                                                                         *)
(* A TaskID "pkg#task" is the pair <<pkg, task>>; a pipeline key is the    *)
(* pair <<"", task>> for a bare task name and <<pkg, task>> for a          *)
(* package-qualified one ("contains '#'" is "first component non-empty").  *)
(***************************************************************************)
EXTENDS Integers, Sequences, FiniteSets, TLC

(* ------------------------------- bounds -------------------------------- *)
MaxConcurrency == 2   \* largest --concurrency value explored
MaxExitCode == 2      \* child exit codes are 0..MaxExitCode
MaxWorkers == 2       \* largest config.Cache.Workers explored
MaxProducers == 2     \* goroutines calling asyncCache.Put concurrently
MaxPuts == 2          \* Put calls each of them makes
MaxCallers == 21      \* goroutines calling httpCache.Put or Fetch
MaxReporters == 3     \* goroutines reporting the remote cache as unavailable
MaxReports == 2       \* reports each of them makes
MaxDigesters == 2     \* largest runtime.NumCPU() explored
MaxFiles == 3         \* longest file list handed to fsCache.Put
MaxRequests == 3      \* requests the daemon's clients make
MaxTargets == 3       \* task names on the command line
MaxPassThrough == 2   \* arguments after the dash

(* ---------------------------- the workspace ---------------------------- *)
Packages == {"a", "b"}
TaskNames == {"build", "test"}
AllTaskIDs == Packages \X TaskNames
ROOT_NODE_NAME == "___ROOT___"

Bare(task) == <<"", task>>
IsPackageTask(key) == key[1] # ""

NoDef == [deps |-> {}, topo |-> {}]

AllScripts == [p \in Packages |-> TaskNames]

\* build depends on ^build; package a depends on package b
WorldTopo ==
  [ pkgDeps  |-> {<<"a", "b">>},
    pipeline |-> (Bare("build") :> [deps |-> {}, topo |-> {"build"}]),
    scripts  |-> AllScripts,
    targets  |-> <<"build">>,
    filtered |-> {"a", "b"} ]

\* two independent packages with a build task
WorldIndep ==
  [ pkgDeps  |-> {},
    pipeline |-> (Bare("build") :> NoDef),
    scripts  |-> AllScripts,
    targets  |-> <<"build">>,
    filtered |-> {"a", "b"} ]

\* test depends on build of the same package; only package a is in scope
WorldChain ==
  [ pkgDeps  |-> {},
    pipeline |-> (Bare("build") :> NoDef) @@
                 (Bare("test") :> [deps |-> {Bare("build")}, topo |-> {}]),
    scripts  |-> AllScripts,
    targets  |-> <<"test">>,
    filtered |-> {"a"} ]

\* package b has no build script: b#build is a pure dependency node
WorldNoScript ==
  [ pkgDeps  |-> {<<"a", "b">>},
    pipeline |-> (Bare("build") :> [deps |-> {}, topo |-> {"build"}]),
    scripts  |-> [p \in Packages |-> IF p = "b" THEN {} ELSE TaskNames],
    targets  |-> <<"build">>,
    filtered |-> {"a", "b"} ]

\* build and test depend on each other
WorldCycle ==
  [ pkgDeps  |-> {},
    pipeline |-> (Bare("build") :> [deps |-> {Bare("test")}, topo |-> {}]) @@
                 (Bare("test") :> [deps |-> {Bare("build")}, topo |-> {}]),
    scripts  |-> AllScripts,
    targets  |-> <<"build">>,
    filtered |-> {"a", "b"} ]

\* the requested target is not a task of the pipeline
WorldUnknownTarget ==
  [ pkgDeps  |-> {},
    pipeline |-> (Bare("build") :> NoDef),
    scripts  |-> AllScripts,
    targets  |-> <<"lint">>,
    filtered |-> {"a", "b"} ]

Worlds == {WorldTopo, WorldIndep, WorldChain, WorldNoScript, WorldCycle,
           WorldUnknownTarget}

Modes == {"run", "dry", "graph"}

(* ------------------------ graphs and the pipeline ----------------------- *)
Range(s) == {s[i] : i \in 1..Len(s)}

\* fs.Pipeline.HasTask: some key names the task, bare or package-qualified
HasTask(pipeline, task) == \E key \in DOMAIN pipeline : key[2] = task

\* validateTasks: the first requested target that the pipeline lacks is an error
validateTasks(pipeline, targets) ==
  \A i \in 1..Len(targets) : HasTask(pipeline, targets[i])

\* the definition that applies to pkg#task: the package-qualified entry,
\* else the bare entry
HasDefinition(pipeline, id) ==
  id \in DOMAIN pipeline \/ Bare(id[2]) \in DOMAIN pipeline

DefinitionOf(pipeline, id) ==
  IF id \in DOMAIN pipeline THEN pipeline[id]
  ELSE IF Bare(id[2]) \in DOMAIN pipeline THEN pipeline[Bare(id[2])]
  ELSE NoDef

\* direct dependencies of a package in the package graph
DirectDeps(topoEdges, pkg) ==
  {e[2] : e \in {x \in topoEdges : x[1] = pkg /\ x[2] # ROOT_NODE_NAME}}

\* the tasks that must complete before id
TaskPreds(topoEdges, pipeline, id) ==
  LET def == DefinitionOf(pipeline, id) IN
    {d \in def.deps : IsPackageTask(d)}
    \cup {<<id[1], d[2]>> : d \in {x \in def.deps : ~IsPackageTask(x)}}
    \cup {<<p, t>> : p \in DirectDeps(topoEdges, id[1]), t \in def.topo}

RECURSIVE TaskClosure(_, _, _)
TaskClosure(topoEdges, pipeline, ids) ==
  LET more == UNION {TaskPreds(topoEdges, pipeline, id) : id \in ids} IN
    IF more \subseteq ids THEN ids
    ELSE TaskClosure(topoEdges, pipeline, ids \cup more)

\* core.Scheduler.Prepare: the vertices of the task graph
TaskVertices(topoEdges, world) ==
  TaskClosure(topoEdges, world.pipeline,
              {<<p, t>> : p \in world.filtered, t \in Range(world.targets)})

\* core.Scheduler.Prepare: the edges <<from, to>>, "to depends on from"
TaskEdges(topoEdges, world) ==
  UNION {{<<d, id>> : d \in TaskPreds(topoEdges, world.pipeline, id)} :
           id \in TaskVertices(topoEdges, world)}

RECURSIVE Reach(_, _)
Reach(edges, ids) ==
  LET more == {e[2] : e \in {x \in edges : x[1] \in ids}} IN
    IF more \subseteq ids THEN ids ELSE Reach(edges, ids \cup more)

\* util.ValidateGraph: no vertex reaches itself
ValidateGraph(edges) ==
  \A e \in edges : e[1] \notin Reach(edges, {e[2]})

\* the package graph: every package hangs off the root node
TopologicalGraph(world) ==
  world.pkgDeps \cup {<<p, ROOT_NODE_NAME>> : p \in Packages}


\* a fixed total order on TaskIDs (lexicographic), for the serial tie-break
TaskOrder == << <<"a", "build">>, <<"a", "test">>, <<"b", "build">>, <<"b", "test">> >>
Rank(id) == CHOOSE i \in 1..Len(TaskOrder) : TaskOrder[i] = id

(* ------------------------- asyncCache worker states --------------------- *)
\* a worker goroutine waits on the channel, runs realCache.Put for the
\* request of task t, or has left its loop
Idle == <<"idle">>
Exited == <<"exited">>
Busy(t) == <<"busy", t>>

(* ------------------------------- errors -------------------------------- *)
NoErr == [kind |-> "nil", code |-> 0]
ChildExit(c) == [kind |-> "child", code |-> c]
OtherErr == [kind |-> "other", code |-> 0]
ErrClosing == [kind |-> "closing", code |-> 0]

(* ------------------------------- state --------------------------------- *)
VARIABLES
  world,          \* the workspace: package graph, pipeline, scripts, targets
  opts,           \* runOpts and config.Cache.Workers
  phase,          \* where run / runOperation / executeTasks is
  topoEdges,      \* g.TopologicalGraph
  taskVerts,      \* engine.TaskGraph vertices (without the root)
  taskEdges,      \* engine.TaskGraph edges
  fileHashes,     \* the packages CalculateFileHashes has hashed the files of
  cacheCreated,   \* cache.New has returned a cache
  pc,             \* per task: position of its visitor
  taskHash,       \* per task: how CalculateTaskHash returned, from which deps
  fetched,        \* per task: what RestoreOutputs / Fetch returned
  events,         \* per task: trace events emitted by tracer(...)
  result,         \* per task: the error the visitor returned
  child,          \* per task: what processes.Exec did with its command
  outputsClosed,  \* per task: what closeOutputs returned after a success
  saved,          \* per task: what SaveOutputs did
  closing,        \* process.Manager has been closed
  runningAtClose, \* children that were running when the manager was closed
  errs,           \* the error list Execute collects
  workers,        \* asyncCache worker goroutines
  requestsClosed, \* asyncCache.requests has been closed
  innerPut,       \* per task: progress of realCache.Put for its request
  records,        \* dry run: the hashedTask list
  printed,        \* dry run: the task list runOperation printed
  pendingExit,    \* executeTasks' return value while its defers run
  runErr,         \* kind of error run() returned
  exitCode        \* process exit code, -1 while the process runs

mainVars == <<world, opts, phase, topoEdges, taskVerts, taskEdges, fileHashes,
              cacheCreated, pc, taskHash, fetched, events, result, child,
              outputsClosed, saved, closing, runningAtClose, errs, workers,
              requestsClosed, innerPut, records, printed, pendingExit,
              runErr, exitCode>>

\* the asyncCache on its own, with several producers calling Put
VARIABLES
  aN,         \* config.Cache.Workers
  aCalls,     \* per producer: how many times it has called Put
  aBlocked,   \* producers blocked in the send inside Put
  aReturned,  \* requests whose Put has returned nil
  aTaken,     \* requests a worker has received from the channel
  aHandled,   \* requests whose realCache.Put has returned
  aInner,     \* per request: the realCache.Put calls made for it, with the worker
  aWorkers,   \* the worker goroutines
  aShutdown   \* "no", "closed" (close(c.requests) done) or "returned"

asyncVars == <<aN, aCalls, aBlocked, aReturned, aTaken, aHandled, aInner,
               aWorkers, aShutdown>>

\* the httpCache request limiter, with many callers of Put and Fetch
VARIABLES
  lLen,        \* number of elements in the requestLimiter channel
  lIdle,       \* callers outside any httpCache operation
  lAcquiring,  \* per operation: callers inside requestLimiter.acquire()
  lInside,     \* per operation: callers between acquire and release
  lWriters,    \* httpCache.write goroutines that have not returned
  lReaders     \* Puts in ioutil.ReadAll(r), the pipe not yet closed

limVars == <<lLen, lIdle, lAcquiring, lInside, lWriters, lReaders>>

\* one httpCache.Put of a file set followed by one httpCache.Fetch
VARIABLES
  hEnv,     \* host OS, signing option, the files and their metadata
  hPut,     \* progress of httpCache.Put / httpCache.write
  hServer,  \* what the remote cache stores under the hash
  hResp,    \* the response FetchArtifact returned
  hFetch,   \* progress and result of httpCache.Fetch / retrieve
  hDst      \* the file tree under the root Fetch restores into

httpVars == <<hEnv, hPut, hServer, hResp, hFetch, hDst>>

\* one fsCache.Put of a file set followed by one fsCache.Fetch
VARIABLES
  fEnv,    \* the files, the duration, what os.Link does on this host
  fPut,    \* progress of fsCache.Put
  fCache,  \* the tree under cacheDirectory/<hash>
  fMeta,   \* cacheDirectory/<hash>-meta.json
  fFetch,  \* progress and result of fsCache.Fetch
  fDst     \* the file tree under the root Fetch restores into

fsVars == <<fEnv, fPut, fCache, fMeta, fFetch, fDst>>

\* a dry run repeated over the same workspace
VARIABLES
  earlier  \* what the dry run before this one printed

dryVars == <<earlier>>

\* the onCacheRemoved callback of executeTasks, called by several goroutines
VARIABLES
  oDone,      \* once.done
  oMutex,     \* once.m: the goroutine holding it, 0 when unlocked
  oPc,        \* per goroutine: where it is inside the callback
  oCalls,     \* per goroutine: how many times it has called the callback
  oWarnings   \* how many times logWarning("Remote Caching is unavailable") ran

onceVars == <<oDone, oMutex, oPc, oCalls, oWarnings>>

\* the parts below that have a specification of their own
\* fsCache.Put with its digester goroutines, followed by one fsCache.Fetch
VARIABLES
  pEnv,      \* runtime.NumCPU(), the files with what happens to each, the disk
  pSent,     \* how many files the producer loop has sent
  pQueue,    \* the files buffered in fileQueue
  pClosed,   \* close(fileQueue) done
  pDigest,   \* per digester goroutine: where it is
  pGroup,    \* the first error the errgroup has seen, 0 for none
  pPut,      \* where Put is, and what it returned
  pStored,   \* the files present under cacheDirectory/<hash>
  pMeta,     \* cacheDirectory/<hash>-meta.json exists
  pFetch     \* what the Fetch after the Put returned

poolVars == <<pEnv, pSent, pQueue, pClosed, pDigest, pGroup, pPut, pStored,
              pMeta, pFetch>>

\* the daemon: runTurboServer, daemonTimeout.loop and the request interceptors
VARIABLES
  dMain,    \* where runTurboServer is
  dServe,   \* the gRPC server: serving, failed (Serve returned), stopped
  dCtx,     \* the server context is cancelled
  dTimer,   \* the timer behind timeoutCh
  dCloses,  \* how many times close(dt.timedOut) has been executed
  dLoop,    \* where daemonTimeout.loop is
  dSpun,    \* the loop has taken the ctx.Done() case
  dReqs     \* per request: where its interceptor and handler are

daemonVars == <<dMain, dServe, dCtx, dTimer, dCloses, dLoop, dSpun, dReqs>>

\* one call of CopyOrLinkFile
VARIABLES
  cIn,     \* the arguments, the source's link target, what each call will do
  cPc,     \* where the call is
  cCalls,  \* the file-system calls made so far, in order
  cTo,     \* what is at the destination
  cRet     \* the error returned

copyVars == <<cIn, cPc, cCalls, cTo, cRet>>

\* the pass-through arguments of one run
VARIABLES
  gIn,      \* rs.Targets and opts.runOpts.passThroughArgs
  gHashed,  \* per task: the arguments CalculateTaskHash was given
  gArgv     \* per task: the arguments of the child's command line

argsVars == <<gIn, gHashed, gArgv>>

\* the parts declared after the warning's
laterVars == <<poolVars, daemonVars, copyVars, argsVars>>

extraVars == <<dryVars, onceVars, laterVars>>

auxVars == <<asyncVars, limVars, httpVars, fsVars, extraVars>>

\* what the actions of one part leave alone
asyncRest == <<mainVars, limVars, httpVars, fsVars, extraVars>>
limRest == <<mainVars, asyncVars, httpVars, fsVars, extraVars>>
httpRest == <<mainVars, asyncVars, limVars, fsVars, extraVars>>
fsRest == <<mainVars, asyncVars, limVars, httpVars, extraVars>>

vars == <<mainVars, auxVars>>

runVars == <<pc, taskHash, fetched, events, result, child, outputsClosed,
             saved, closing, runningAtClose, errs, workers, requestsClosed,
             innerPut, records>>

NoFetch == [hit |-> FALSE, err |-> FALSE, done |-> FALSE]

\* CalculateTaskHash has not been called for the task
NoHash == [state |-> "none", deps |-> {}]

\* the asyncCache of the second specification is not in use
AsyncOff ==
  /\ aN = 0
  /\ aCalls = <<>>
  /\ aBlocked = {}
  /\ aReturned = {}
  /\ aTaken = {}
  /\ aHandled = {}
  /\ aInner = <<>>
  /\ aWorkers = <<>>
  /\ aShutdown = "no"

HttpOps == {"Put", "Fetch"}

\* the limiter of the third specification is not in use
LimOff ==
  /\ lLen = 0
  /\ lIdle = 0
  /\ lAcquiring = [k \in HttpOps |-> 0]
  /\ lInside = [k \in HttpOps |-> 0]
  /\ lWriters = 0
  /\ lReaders = 0

\* the httpCache of the fourth specification is not in use
HttpOff ==
  /\ hEnv = <<>>
  /\ hPut = <<>>
  /\ hServer = <<>>
  /\ hResp = <<>>
  /\ hFetch = <<>>
  /\ hDst = <<>>

\* the fsCache of the fifth specification is not in use
FsOff ==
  /\ fEnv = <<>>
  /\ fPut = <<>>
  /\ fCache = <<>>
  /\ fMeta = <<>>
  /\ fFetch = <<>>
  /\ fDst = <<>>

NoEarlier == [ran |-> FALSE, tasks |-> <<>>]

\* no dry run came before this run
DryOff == earlier = NoEarlier

\* the callback of the seventh specification is not in use
OnceOff ==
  /\ oDone = 0
  /\ oMutex = 0
  /\ oPc = <<>>
  /\ oCalls = <<>>
  /\ oWarnings = 0

\* the digester pool of the eighth specification is not in use
PoolOff ==
  /\ pEnv = <<>>
  /\ pSent = 0
  /\ pQueue = <<>>
  /\ pClosed = FALSE
  /\ pDigest = <<>>
  /\ pGroup = 0
  /\ pPut = "off"
  /\ pStored = {}
  /\ pMeta = FALSE
  /\ pFetch = "off"

\* the daemon of the ninth specification is not in use
DaemonOff ==
  /\ dMain = "off"
  /\ dServe = "off"
  /\ dCtx = FALSE
  /\ dTimer = <<>>
  /\ dCloses = 0
  /\ dLoop = "off"
  /\ dSpun = FALSE
  /\ dReqs = <<>>

\* the CopyOrLinkFile call of the tenth specification is not in use
CopyOff ==
  /\ cIn = <<>>
  /\ cPc = "off"
  /\ cCalls = <<>>
  /\ cTo = <<>>
  /\ cRet = "off"

\* the arguments of the eleventh specification are not in use
ArgsOff ==
  /\ gIn = <<>>
  /\ gHashed = <<>>
  /\ gArgv = <<>>

LaterOff == PoolOff /\ DaemonOff /\ CopyOff /\ ArgsOff

ExtraOff == DryOff /\ OnceOff /\ LaterOff

AuxOff == AsyncOff /\ LimOff /\ HttpOff /\ FsOff /\ ExtraOff

\* the state when RunCommand.Run calls run.run, for a set of workspaces and
\* of run modes
InitRun(worldSet, modeSet) ==
  /\ world \in worldSet
  /\ opts \in [continueOnError : BOOLEAN, parallel : BOOLEAN, mode : modeSet,
               concurrency : 1..MaxConcurrency, workers : 1..MaxWorkers]
  /\ phase = "start"
  /\ topoEdges = TopologicalGraph(world)
  /\ taskVerts = {}
  /\ taskEdges = {}
  /\ fileHashes = {}
  /\ cacheCreated = FALSE
  /\ pc = [t \in AllTaskIDs |-> "pending"]
  /\ taskHash = [t \in AllTaskIDs |-> NoHash]
  /\ fetched = [t \in AllTaskIDs |-> NoFetch]
  /\ events = [t \in AllTaskIDs |-> {}]
  /\ result = [t \in AllTaskIDs |-> NoErr]
  /\ child = [t \in AllTaskIDs |-> "none"]
  /\ outputsClosed = [t \in AllTaskIDs |-> "none"]
  /\ saved = [t \in AllTaskIDs |-> "none"]
  /\ closing = FALSE
  /\ runningAtClose = {}
  /\ errs = <<>>
  /\ workers = <<>>
  /\ requestsClosed = FALSE
  /\ innerPut = [t \in AllTaskIDs |-> "none"]
  /\ records = <<>>
  /\ printed = <<>>
  /\ pendingExit = 0
  /\ runErr = "none"
  /\ exitCode = -1
  /\ AuxOff

Init == InitRun(Worlds, Modes)

(* --------------------------- run / runOperation ------------------------- *)
\* run() returning err to RunCommand.Run: a non-ChildExit error exits with 1
Fail(kind) ==
  /\ phase' = "done"
  /\ runErr' = kind
  /\ exitCode' = 1

\* run.run: context.New, ValidateGraph of the package graph, validateTasks,
\* scm and scope resolution
RunValidate ==
  /\ phase = "start"
  /\ \E collaborators \in {"ok", "err"} :
       IF collaborators = "err" \/ ~ValidateGraph(world.pkgDeps)
         THEN Fail("internal")
       ELSE IF ~validateTasks(world.pipeline, world.targets)
         THEN Fail("config")
       ELSE /\ phase' = "validated"
            /\ UNCHANGED <<runErr, exitCode>>
  /\ UNCHANGED <<auxVars, printed, world, opts, topoEdges, taskVerts, taskEdges, fileHashes,
                 cacheCreated, pendingExit>>
  /\ UNCHANGED runVars

buildTaskGraphOK_IgnoresCycle(edges) == TRUE

\* buildTaskGraph: engine.Prepare, then util.ValidateGraph(engine.TaskGraph)
buildTaskGraphOK(edges) == ValidateGraph(TaskEdges(edges, world))

\* runOperation: the first buildTaskGraph
RunBuildTaskGraph ==
  /\ phase = "validated"
  /\ IF buildTaskGraphOK(topoEdges)
       THEN /\ taskVerts' = TaskVertices(topoEdges, world)
            /\ taskEdges' = TaskEdges(topoEdges, world)
            /\ phase' = "built"
            /\ UNCHANGED <<runErr, exitCode>>
       ELSE /\ Fail("config")
            /\ UNCHANGED <<taskVerts, taskEdges>>
  /\ UNCHANGED <<auxVars, printed, world, opts, topoEdges, fileHashes, cacheCreated, pendingExit>>
  /\ UNCHANGED runVars

ParallelEdges_KeepsAll(edges) == edges

\* the package graph after parallel mode removed every edge not into the root
ParallelEdges(edges) == {e \in edges : e[2] = ROOT_NODE_NAME}

\* hashTracker.CalculateFileHashes(engine.TaskGraph.Vertices(), ...): one file
\* hash per package that has a task in the graph
CalculateFileHashes(vertices) == {t[1] : t \in vertices}

HashingFailed_Never(hashing) == FALSE

\* runOperation: a CalculateFileHashes error is returned at once
HashingFailed(hashing) == hashing = "err"

\* runOperation: CalculateFileHashes, the parallel-mode rewrite, the dispatch
\* on dotGraph / dryRun
RunCalculateFileHashes ==
  /\ phase = "built"
  /\ \E hashing \in {"ok", "err"} :
       IF HashingFailed(hashing)
         THEN /\ Fail("hash")
              /\ UNCHANGED <<topoEdges, taskVerts, taskEdges, fileHashes>>
       ELSE LET edges == IF opts.parallel THEN ParallelEdges(topoEdges)
                         ELSE topoEdges IN
            /\ fileHashes' = IF hashing = "ok"
                             THEN CalculateFileHashes(taskVerts) ELSE {}
            /\ topoEdges' = edges
            /\ IF buildTaskGraphOK(edges)
                 THEN /\ taskVerts' = TaskVertices(edges, world)
                      /\ taskEdges' = TaskEdges(edges, world)
                      /\ IF opts.mode = "graph"
                           THEN /\ phase' = "done"
                                /\ exitCode' = 0
                           ELSE /\ phase' = IF opts.mode = "dry" THEN "dry"
                                            ELSE "setup"
                                /\ UNCHANGED exitCode
                      /\ UNCHANGED runErr
                 ELSE /\ Fail("config")
                      /\ UNCHANGED <<taskVerts, taskEdges>>
  /\ UNCHANGED <<auxVars, printed, world, opts, cacheCreated, pendingExit>>
  /\ UNCHANGED runVars


(* ------------------------------ scheduler ------------------------------- *)
InFlightPCs == {"restore", "spawn", "running", "save", "put"}
InFlight == {t \in taskVerts : pc[t] \in InFlightPCs}
Succeeded(t) == pc[t] = "returned" /\ result[t] = NoErr

\* a task is ready when every predecessor's visitor has returned successfully
Ready ==
  {t \in taskVerts : /\ pc[t] = "pending"
                     /\ \A e \in taskEdges : e[2] = t => Succeeded(e[1])}

\* core.Scheduler.Execute with ExecOpts{Concurrency: limit}: at most limit
\* visitors in flight; with limit 1 the least ready TaskID goes first
CanDispatch(t, limit) ==
  /\ t \in Ready
  /\ Cardinality(InFlight) < limit
  /\ limit = 1 => \A u \in Ready : Rank(t) <= Rank(u)

\* Execute returns once nothing is in flight and nothing can be dispatched
ExecuteFinished == InFlight = {} /\ Ready = {}

\* the visitor for t returns err to the scheduler
Return(t, err) ==
  /\ pc' = [pc EXCEPT ![t] = "returned"]
  /\ result' = [result EXCEPT ![t] = err]
  /\ errs' = IF err = NoErr THEN errs ELSE Append(errs, err)

(* ---------------------------- process manager --------------------------- *)
\* process.Manager.Exec refuses new children once the manager is closed
ManagerAccepts == ~closing

\* what Exec can return for a child it started: nil, a ChildExit with a
\* non-zero code, another error, or ErrClosing when the manager was closed
\* under it
ManagerExecResults ==
  {NoErr, OtherErr} \cup {ChildExit(c) : c \in 1..MaxExitCode}
  \cup (IF closing THEN {ErrClosing} ELSE {})

(* ------------------------------ cache reads ----------------------------- *)
\* httpCache.retrieve: every error return carries hit = false
RetrieveResults ==
  {[hit |-> TRUE, err |-> FALSE], [hit |-> FALSE, err |-> FALSE],
   [hit |-> FALSE, err |-> TRUE]}

HttpFetch_HitOnError(r) == [hit |-> r.hit \/ r.err, err |-> r.err]

\* httpCache.Fetch: an error from retrieve is returned with hit = false
HttpFetch(r) ==
  IF r.err THEN [hit |-> FALSE, err |-> TRUE]
  ELSE [hit |-> r.hit, err |-> FALSE]

\* TaskCache.RestoreOutputs: reports what Fetch reported
RestoreOutputs(r) ==
  LET f == HttpFetch(r) IN [hit |-> f.hit, err |-> f.err, done |-> TRUE]

(* ----------------------------- executeTasks ----------------------------- *)
\* executeTasks up to engine.Execute: cache.New starts the async workers
ExecuteTasksSetup ==
  /\ phase = "setup"
  /\ \E made \in {"ok", "err"} :
       IF made = "err"
         THEN /\ Fail("cache")
              /\ UNCHANGED <<cacheCreated, workers>>
       ELSE /\ cacheCreated' = TRUE
            /\ workers' = [w \in 1..opts.workers |-> Idle]
            /\ phase' = "executing"
            /\ UNCHANGED <<runErr, exitCode>>
  /\ UNCHANGED <<auxVars, printed, world, opts, topoEdges, taskVerts, taskEdges, fileHashes,
                 pc, taskHash, fetched, events, result, child, outputsClosed,
                 saved, closing, runningAtClose, errs, requestsClosed,
                 innerPut, records, pendingExit>>

\* getPackageTaskVisitor: does the pipeline have an entry for the task
HasPipelineEntry(t) == HasDefinition(world.pipeline, t)

\* PackageTask.Command: the package has a script for the task
HasCommand(t) == t[2] \in world.scripts[t[1]]

DownEdges_UpEdges(t) == {e[2] : e \in {x \in taskEdges : x[1] = t}}

\* "deps := engine.TaskGraph.DownEdges(pt.TaskID)": the tasks t depends on
\* directly
DownEdges(t) == {e[1] : e \in {x \in taskEdges : x[2] = t}}

\* "taskHashes.CalculateTaskHash(pt, deps, passThroughArgs)" as the visitors
\* call it, with the outcome the tracker had
CalculateTaskHash(t, hashed) ==
  [state |-> IF hashed THEN "ok" ELSE "err", deps |-> DownEdges(t)]

BailsOut_Never(t) == FALSE

\* exec: "bail if the script doesn't exist", after hashing
BailsOut(t) == ~HasCommand(t)

\* getPackageTaskVisitor and exec up to the cache lookup: CalculateTaskHash,
\* then bail out when the package has no script
ExecBegin(t) ==
  /\ phase = "executing"
  /\ CanDispatch(t, opts.concurrency)
  /\ IF ~HasPipelineEntry(t)
       THEN /\ Return(t, NoErr)
            /\ UNCHANGED taskHash
       ELSE \E hashed \in BOOLEAN :
              /\ taskHash' = [taskHash EXCEPT ![t] = CalculateTaskHash(t, hashed)]
              /\ IF BailsOut(t)
                   THEN Return(t, NoErr)
                   ELSE /\ pc' = [pc EXCEPT ![t] = "restore"]
                        /\ UNCHANGED <<result, errs>>
  /\ UNCHANGED <<auxVars, printed, world, opts, phase, topoEdges, taskVerts, taskEdges,
                 fileHashes, cacheCreated, fetched, events, child,
                 outputsClosed, saved, closing, runningAtClose, workers,
                 requestsClosed, innerPut, records, pendingExit, runErr,
                 exitCode>>

CacheHit_Never(f) == FALSE

\* exec: "if err != nil { report } else if hit { TargetCached; return nil }"
CacheHit(f) == ~f.err /\ f.hit

\* exec: RestoreOutputs, and on a miss or an error the command set-up with
\* OutputWriter (os.Exit(1) when it fails and continueOnError is off)
ExecRestore(t) ==
  /\ phase = "executing"
  /\ pc[t] = "restore"
  /\ \E r \in RetrieveResults, writer \in {"ok", "err"} :
       LET f == RestoreOutputs(r) IN
       /\ fetched' = [fetched EXCEPT ![t] = f]
       /\ IF CacheHit(f)
            THEN /\ events' = [events EXCEPT ![t] = @ \cup {"TargetCached"}]
                 /\ Return(t, NoErr)
                 /\ UNCHANGED <<phase, exitCode>>
          ELSE IF writer = "ok"
            THEN /\ pc' = [pc EXCEPT ![t] = "spawn"]
                 /\ UNCHANGED <<events, result, errs, phase, exitCode>>
          ELSE /\ events' = [events EXCEPT ![t] = @ \cup {"TargetBuildFailed"}]
               /\ IF ~opts.continueOnError
                    THEN /\ phase' = "exited"
                         /\ exitCode' = 1
                         /\ UNCHANGED <<pc, result, errs>>
                    ELSE /\ pc' = [pc EXCEPT ![t] = "spawn"]
                         /\ UNCHANGED <<result, errs, phase, exitCode>>
  /\ UNCHANGED <<auxVars, printed, world, opts, topoEdges, taskVerts, taskEdges, fileHashes,
                 cacheCreated, taskHash, child, outputsClosed, saved, closing,
                 runningAtClose, workers, requestsClosed, innerPut, records,
                 pendingExit, runErr>>

\* exec: processes.Exec(cmd) starts the child, or returns ErrClosing at once
\* (closeOutputs, then return nil)
ExecSpawn(t) ==
  /\ phase = "executing"
  /\ pc[t] = "spawn"
  /\ IF ManagerAccepts
       THEN /\ pc' = [pc EXCEPT ![t] = "running"]
            /\ child' = [child EXCEPT ![t] = "running"]
            /\ UNCHANGED <<result, errs>>
       ELSE /\ child' = [child EXCEPT ![t] = "refused"]
            /\ Return(t, NoErr)
  /\ UNCHANGED <<auxVars, printed, world, opts, phase, topoEdges, taskVerts, taskEdges,
                 fileHashes, cacheCreated, taskHash, fetched, events,
                 outputsClosed, saved, closing, runningAtClose, workers,
                 requestsClosed, innerPut, records, pendingExit, runErr,
                 exitCode>>

ClosesManager_Never == FALSE

ClosesManager_Always == TRUE

\* exec: "if !continueOnError { processes.Close() }" after a failed command
ClosesManager == ~opts.continueOnError

IsErrClosing_Never(err) == FALSE

\* exec: "if errors.Is(err, process.ErrClosing) { return nil }"
IsErrClosing(err) == err = ErrClosing

SavesOutputs_Always(closeOutputs) == TRUE

\* exec: SaveOutputs is called only when closeOutputs returned no error
SavesOutputs(closeOutputs) == closeOutputs = "ok"

\* exec: processes.Exec(cmd) returns err for the running child; the failure
\* branch, and closeOutputs on success
ExecWait(t) ==
  /\ phase = "executing"
  /\ pc[t] = "running"
  /\ \E err \in ManagerExecResults, closeOutputs \in {"ok", "err"} :
       IF err = NoErr
         THEN /\ child' = [child EXCEPT ![t] = "ok"]
              /\ outputsClosed' = [outputsClosed EXCEPT ![t] = closeOutputs]
              /\ IF SavesOutputs(closeOutputs)
                   THEN /\ pc' = [pc EXCEPT ![t] = "save"]
                        /\ UNCHANGED <<events, result, errs>>
                   ELSE /\ events' = [events EXCEPT ![t] = @ \cup {"TargetBuilt"}]
                        /\ Return(t, NoErr)
              /\ UNCHANGED <<closing, runningAtClose>>
       ELSE IF IsErrClosing(err)
         THEN /\ child' = [child EXCEPT ![t] = "closed"]
              /\ Return(t, NoErr)
              /\ UNCHANGED <<events, outputsClosed, closing, runningAtClose>>
       ELSE /\ child' = [child EXCEPT ![t] =
                          IF err = ErrClosing THEN "closed" ELSE "failed"]
            /\ events' = [events EXCEPT ![t] = @ \cup {"TargetBuildFailed"}]
            /\ IF ClosesManager /\ ~closing
                 THEN /\ closing' = TRUE
                      /\ runningAtClose' =
                           {u \in taskVerts \ {t} : pc[u] = "running"}
                 ELSE UNCHANGED <<closing, runningAtClose>>
            /\ Return(t, err)
            /\ UNCHANGED outputsClosed
  /\ UNCHANGED <<auxVars, printed, world, opts, phase, topoEdges, taskVerts, taskEdges,
                 fileHashes, cacheCreated, taskHash, fetched, saved, workers,
                 requestsClosed, innerPut, records, pendingExit, runErr,
                 exitCode>>

SaveOutputsResult_Returned(outcome) == IF outcome = "err" THEN OtherErr ELSE NoErr

\* exec: an error from SaveOutputs is logged, exec still returns nil
SaveOutputsResult(outcome) == NoErr

\* exec: SaveOutputs up to the cache Put; when it fails before the Put (or
\* has nothing to put) exec goes on to tracer(TargetBuilt) and returns
ExecSaveOutputs(t) ==
  /\ phase = "executing"
  /\ pc[t] = "save"
  /\ \E outcome \in {"err", "put"} :
       IF outcome = "err"
         THEN /\ saved' = [saved EXCEPT ![t] = "saveErr"]
              /\ events' = [events EXCEPT ![t] = @ \cup {"TargetBuilt"}]
              /\ Return(t, SaveOutputsResult(outcome))
         ELSE /\ saved' = [saved EXCEPT ![t] = "put"]
              /\ pc' = [pc EXCEPT ![t] = "put"]
              /\ UNCHANGED <<events, result, errs>>
  /\ UNCHANGED <<auxVars, printed, world, opts, phase, topoEdges, taskVerts, taskEdges,
                 fileHashes, cacheCreated, taskHash, fetched, child,
                 outputsClosed, closing, runningAtClose, workers,
                 requestsClosed, innerPut, records, pendingExit, runErr,
                 exitCode>>

(* ------------------------------ asyncCache ------------------------------ *)
AsyncPut_Synchronous(w, t) ==
  /\ workers[w] = Idle
  /\ ~requestsClosed
  /\ workers' = workers
  /\ \E res \in {"ok", "err"} : innerPut' = [innerPut EXCEPT ![t] = res]

\* asyncCache.Put: the send on the unbuffered requests channel completes
\* when a worker receives the request
AsyncPut(w, t) ==
  /\ workers[w] = Idle
  /\ ~requestsClosed
  /\ workers' = [workers EXCEPT ![w] = Busy(t)]
  /\ innerPut' = [innerPut EXCEPT ![t] = "taken"]

\* exec: asyncCache.Put returns nil inside SaveOutputs, then
\* tracer(TargetBuilt) and return nil
ExecPut(t) ==
  /\ phase = "executing"
  /\ pc[t] = "put"
  /\ \E w \in DOMAIN workers : AsyncPut(w, t)
  /\ events' = [events EXCEPT ![t] = @ \cup {"TargetBuilt"}]
  /\ Return(t, SaveOutputsResult("put"))
  /\ UNCHANGED <<auxVars, printed, world, opts, phase, topoEdges, taskVerts, taskEdges,
                 fileHashes, cacheCreated, taskHash, fetched, child,
                 outputsClosed, saved, closing, runningAtClose,
                 requestsClosed, records, pendingExit, runErr, exitCode>>

\* asyncCache.run: realCache.Put returns, its error is dropped
WorkerPut(w) ==
  /\ phase \in {"executing", "shutdown"}
  /\ w \in DOMAIN workers
  /\ workers[w] \notin {Idle, Exited}
  /\ \E res \in {"ok", "err"} :
       innerPut' = [innerPut EXCEPT ![workers[w][2]] = res]
  /\ workers' = [workers EXCEPT ![w] = Idle]
  /\ UNCHANGED <<auxVars, printed, world, opts, phase, topoEdges, taskVerts, taskEdges,
                 fileHashes, cacheCreated, pc, taskHash, fetched, events,
                 result, child, outputsClosed, saved, closing,
                 runningAtClose, errs, requestsClosed, records, pendingExit,
                 runErr, exitCode>>

\* asyncCache.run: the range loop ends on the closed channel, wg.Done()
WorkerExit(w) ==
  /\ phase = "shutdown"
  /\ w \in DOMAIN workers
  /\ workers[w] = Idle
  /\ requestsClosed
  /\ workers' = [workers EXCEPT ![w] = Exited]
  /\ UNCHANGED <<auxVars, printed, world, opts, phase, topoEdges, taskVerts, taskEdges,
                 fileHashes, cacheCreated, pc, taskHash, fetched, events,
                 result, child, outputsClosed, saved, closing,
                 runningAtClose, errs, requestsClosed, innerPut, records,
                 pendingExit, runErr, exitCode>>

(* ------------------------- the end of executeTasks ---------------------- *)
RECURSIVE FoldExitCode_OtherOverrides(_, _, _)
FoldExitCode_OtherOverrides(errors, i, code) ==
  IF i > Len(errors) THEN code
  ELSE FoldExitCode_OtherOverrides(errors, i + 1,
         IF errors[i].kind = "child"
           THEN (IF errors[i].code > code THEN errors[i].code ELSE code)
         ELSE 1)

\* executeTasks: the loop over errs that tracks the exit code
RECURSIVE FoldExitCode(_, _, _)
FoldExitCode(errors, i, code) ==
  IF i > Len(errors) THEN code
  ELSE FoldExitCode(errors, i + 1,
         IF errors[i].kind = "child"
           THEN (IF errors[i].code > code THEN errors[i].code ELSE code)
         ELSE IF code = 0 THEN 1 ELSE code)

\* executeTasks' result as RunCommand.Run maps it to a process exit code:
\* the profiler error is not a ChildExit and exits with 1
RunExitCode(errors, profilerErr) ==
  IF profilerErr THEN 1 ELSE FoldExitCode(errors, 1, 0)

\* executeTasks after Execute returned: the exit code, runState.Close, and
\* the deferred turboCache.Shutdown closing the request channel
ExecuteTasksReturn ==
  /\ phase = "executing"
  /\ ExecuteFinished
  /\ \E profilerErr \in BOOLEAN :
       /\ pendingExit' = RunExitCode(errs, profilerErr)
       /\ runErr' = IF profilerErr THEN "profiler"
                    ELSE IF errs # <<>> THEN "tasks" ELSE "none"
  /\ requestsClosed' = TRUE
  /\ phase' = "shutdown"
  /\ UNCHANGED <<auxVars, printed, world, opts, topoEdges, taskVerts, taskEdges, fileHashes,
                 cacheCreated, pc, taskHash, fetched, events, result, child,
                 outputsClosed, saved, closing, runningAtClose, errs,
                 workers, innerPut, records, exitCode>>

WaitGroupDone_NoWait(ws) == TRUE

\* wg.Wait(): every worker has called wg.Done()
WaitGroupDone(ws) == \A w \in DOMAIN ws : ws[w] = Exited

\* asyncCache.Shutdown: wg.Wait() returns, executeTasks and Run return
ShutdownReturn ==
  /\ phase = "shutdown"
  /\ WaitGroupDone(workers)
  /\ phase' = "done"
  /\ exitCode' = pendingExit
  /\ UNCHANGED <<auxVars, printed, world, opts, topoEdges, taskVerts, taskEdges, fileHashes,
                 cacheCreated, pendingExit, runErr>>
  /\ UNCHANGED runVars

(* -------------------------------- dry run ------------------------------- *)
\* TaskGraph.Ancestors: every task the walk down the dependency edges reaches
Ancestors(edges, t) == {d \in AllTaskIDs : t \in Reach(edges, {d})} \ {t}

\* TaskGraph.Descendents: every task that depends on t, directly or not
Descendents(edges, t) == Reach(edges, {t}) \ {t}

\* the sequences that list every member of a set once
Orders(S) ==
  {q \in [1..Cardinality(S) -> S] : \A i, j \in DOMAIN q : q[i] = q[j] => i = j}

\* sort.Strings on a list of TaskIDs
SortStrings(S) ==
  CHOOSE q \in Orders(S) : \A i, j \in DOMAIN q : i < j => Rank(q[i]) < Rank(q[j])

AncestorOrders_Sorted(S) == {SortStrings(S)}

\* "for _, dep := range ancestors": the set is a Go map, ranged over in an
\* order the runtime picks, and the list built from it is not sorted
AncestorOrders(S) == Orders(S)

\* PackageTask.Command, "<NONEXISTENT>" when the package has no script
CommandOf(t) == IF HasCommand(t) THEN <<"run", t[2]>> ELSE <<"<NONEXISTENT>">>

\* the hashedTask the visitor appends
HashedTask(t, ancestors) ==
  [TaskID |-> t, Command |-> CommandOf(t), Dependencies |-> ancestors,
   Dependents |-> SortStrings(Descendents(taskEdges, t))]

\* executeDryRun's visitor: CalculateTaskHash and one hashedTask record
DryVisit(t) ==
  /\ phase = "dry"
  /\ CanDispatch(t, 1)
  /\ IF ~HasPipelineEntry(t)
       THEN /\ Return(t, NoErr)
            /\ UNCHANGED <<taskHash, records>>
       ELSE \E hashed \in BOOLEAN :
              /\ taskHash' = [taskHash EXCEPT ![t] = CalculateTaskHash(t, hashed)]
              /\ IF hashed
                   THEN /\ \E ancestors \in AncestorOrders(Ancestors(taskEdges, t)) :
                             records' = Append(records, HashedTask(t, ancestors))
                        /\ Return(t, NoErr)
                   ELSE /\ Return(t, OtherErr)
                        /\ UNCHANGED records
  /\ UNCHANGED <<auxVars, printed, world, opts, phase, topoEdges, taskVerts, taskEdges,
                 fileHashes, cacheCreated, fetched, events, child,
                 outputsClosed, saved, closing, runningAtClose, workers,
                 requestsClosed, innerPut, pendingExit, runErr, exitCode>>

DryRunResult_Partial(errors, tasks) == tasks

\* executeDryRun's return value: "nil, errors.New(...)" when len(errs) > 0
DryRunResult(errors, tasks) == IF Len(errors) > 0 THEN <<>> ELSE tasks

\* executeDryRun after Execute returned, and runOperation printing the tasks
\* it got ("if err != nil { return err }" comes before any output)
DryRunReturn ==
  /\ phase = "dry"
  /\ ExecuteFinished
  /\ phase' = "done"
  /\ printed' = DryRunResult(errs, records)
  /\ IF Len(errs) > 0
       THEN /\ runErr' = "dry"
            /\ exitCode' = 1
       ELSE /\ runErr' = "none"
            /\ exitCode' = 0
  /\ UNCHANGED <<auxVars, world, opts, topoEdges, taskVerts, taskEdges, fileHashes,
                 cacheCreated, pendingExit>>
  /\ UNCHANGED runVars

(* ----------------------------- specification ---------------------------- *)
Next ==
  \/ RunValidate
  \/ RunBuildTaskGraph
  \/ RunCalculateFileHashes
  \/ ExecuteTasksSetup
  \/ \E t \in AllTaskIDs : ExecBegin(t)
  \/ \E t \in AllTaskIDs : ExecRestore(t)
  \/ \E t \in AllTaskIDs : ExecSpawn(t)
  \/ \E t \in AllTaskIDs : ExecWait(t)
  \/ \E t \in AllTaskIDs : ExecSaveOutputs(t)
  \/ \E t \in AllTaskIDs : ExecPut(t)
  \/ \E w \in 1..MaxWorkers : WorkerPut(w)
  \/ \E w \in 1..MaxWorkers : WorkerExit(w)
  \/ ExecuteTasksReturn
  \/ ShutdownReturn
  \/ \E t \in AllTaskIDs : DryVisit(t)
  \/ DryRunReturn

Spec == Init /\ [][Next]_vars

(* ------------------------ the dry run on its own ------------------------ *)
\* a#test depends on a#build and, through ^build, on b#build
WorldDiamond ==
  [ pkgDeps  |-> {<<"a", "b">>},
    pipeline |-> (Bare("build") :> NoDef) @@
                 (Bare("test") :> [deps |-> {Bare("build")}, topo |-> {"build"}]),
    scripts  |-> AllScripts,
    targets  |-> <<"test">>,
    filtered |-> {"a"} ]

\* the pipeline names build for package a only: b#build has no entry
WorldQualified ==
  [ pkgDeps  |-> {},
    pipeline |-> (<<"a", "build">> :> NoDef),
    scripts  |-> AllScripts,
    targets  |-> <<"build">>,
    filtered |-> {"a", "b"} ]

DryWorlds == Worlds \cup {WorldDiamond, WorldQualified}

InitDry == InitRun(DryWorlds, {"dry"})

\* the same command is run a second time over the same package graph and
\* pipeline, after a dry run that printed its tasks
DryRunAgain ==
  /\ phase = "done"
  /\ opts.mode = "dry"
  /\ runErr = "none"
  /\ ~earlier.ran
  /\ earlier' = [ran |-> TRUE, tasks |-> printed]
  /\ phase' = "start"
  /\ topoEdges' = TopologicalGraph(world)
  /\ taskVerts' = {}
  /\ taskEdges' = {}
  /\ fileHashes' = {}
  /\ pc' = [t \in AllTaskIDs |-> "pending"]
  /\ taskHash' = [t \in AllTaskIDs |-> NoHash]
  /\ records' = <<>>
  /\ printed' = <<>>
  /\ exitCode' = -1
  /\ UNCHANGED <<asyncVars, limVars, httpVars, fsVars, onceVars, laterVars,
                 world, opts,
                 cacheCreated, fetched, events, result, child,
                 outputsClosed, saved, closing, runningAtClose, errs, workers,
                 requestsClosed, innerPut, pendingExit, runErr>>

NextDry ==
  \/ RunValidate
  \/ RunBuildTaskGraph
  \/ RunCalculateFileHashes
  \/ \E t \in AllTaskIDs : DryVisit(t)
  \/ DryRunReturn
  \/ DryRunAgain

SpecDry == InitDry /\ [][NextDry]_vars


(* -------------------------------- claims -------------------------------- *)
RanTasks == cacheCreated
ReturnedNormally == phase = "done" /\ RanTasks /\ runErr \in {"none", "tasks"}

\* C1: a task with a script whose RestoreOutputs reported a hit without error
\* has emitted TargetCached and nothing else, has returned nil, and has
\* neither spawned a child process nor called SaveOutputs / the cache Put.
C1_CacheHitSkipsExecution ==
  \A t \in AllTaskIDs :
    (fetched[t].done /\ fetched[t].hit /\ ~fetched[t].err) =>
      /\ HasCommand(t)
      /\ pc[t] = "returned"
      /\ result[t] = NoErr
      /\ events[t] = {"TargetCached"}
      /\ child[t] = "none"
      /\ saved[t] = "none"
      /\ innerPut[t] = "none"

C1_Witness ==
  /\ phase = "done"
  /\ exitCode = 0
  /\ \A t \in taskVerts : fetched[t].hit /\ "TargetCached" \in events[t]
  /\ Cardinality(taskVerts) = 2

ChildCodes(errors) ==
  {errors[i].code : i \in {j \in 1..Len(errors) : errors[j].kind = "child"}}

SetMax(S) == CHOOSE m \in S : \A x \in S : x <= m

ExpectedExitCode(errors) ==
  IF errors = <<>> THEN 0
  ELSE IF ChildCodes(errors) # {} THEN SetMax(ChildCodes(errors))
  ELSE 1

\* C2: when executeTasks returns the outcome of the tasks (no internal error
\* such as a failing profiler), the exit code is 0 iff no task returned an
\* error, the maximum child exit code when some task failed with a child
\* exit, and 1 when there are errors but no child exit, whatever the order
\* of the error list.
C2_ExitCodeIsMaxChildExit ==
  ReturnedNormally =>
    /\ exitCode = ExpectedExitCode(errs)
    /\ (exitCode = 0) <=> (\A t \in AllTaskIDs : result[t] = NoErr)

C2_Witness ==
  /\ ReturnedNormally
  /\ Len(errs) = 2
  /\ errs[1].kind = "child"
  /\ errs[1].code = 2
  /\ errs[2].kind = "other"
  /\ exitCode = 2

FirstErrorSeen == ~opts.continueOnError /\ RanTasks /\ errs # <<>>

C4_ContinueKeepsManagerOpen ==
  (opts.continueOnError /\ opts.mode = "run") =>
    /\ ~closing
    /\ \A t \in AllTaskIDs :
         /\ child[t] \notin {"refused", "closed"}
         /\ child[t] = "failed" =>
              \E i \in 1..Len(errs) : errs[i] = result[t] /\ errs[i] # NoErr
    /\ ReturnedNormally =>
         \A i \in 1..Len(errs) :
           exitCode # 0 /\ (errs[i].kind = "child" => exitCode >= errs[i].code)

C4_Witness ==
  /\ opts.continueOnError
  /\ opts.concurrency = 1
  /\ world = WorldIndep
  /\ phase = "done"
  /\ result[<<"a", "build">>] = ChildExit(2)
  /\ child[<<"b", "build">>] = "ok"
  /\ exitCode = 2

ReachedSaveOutputs(t) ==
  pc[t] \in {"save", "put"} \/ saved[t] # "none" \/ innerPut[t] # "none"

\* C5: a task reaches SaveOutputs (and the cache Put) only after its child
\* exited successfully and closeOutputs returned no error; a task whose
\* child failed, was refused or ended by the closing manager, or that had a
\* cache hit, never does.
C5_SaveOnlyAfterSuccess ==
  \A t \in AllTaskIDs :
    /\ ReachedSaveOutputs(t) =>
         /\ child[t] = "ok"
         /\ outputsClosed[t] = "ok"
         /\ ~CacheHit(fetched[t])
    /\ (child[t] \in {"failed", "refused", "closed"} \/ outputsClosed[t] = "err")
         => ~ReachedSaveOutputs(t)

C5_Witness ==
  /\ \E t \in AllTaskIDs : innerPut[t] = "ok" /\ child[t] = "ok"
  /\ \E t \in AllTaskIDs : child[t] = "failed" /\ pc[t] = "returned"

\* C6: a task whose child succeeded returns nil and emits TargetBuilt even
\* when closeOutputs or SaveOutputs failed; only a failed command puts an
\* error in the error list; and when no command failed the exit code is 0
\* whatever the inner backend's Put returned in the async cache.
C6_PutFailureNeverFailsTask ==
  opts.mode = "run" =>
    /\ \A t \in AllTaskIDs :
         /\ (child[t] = "ok" /\ pc[t] = "returned") =>
              (result[t] = NoErr /\ "TargetBuilt" \in events[t])
         /\ result[t] # NoErr => child[t] = "failed"
    /\ (ReturnedNormally /\ \A t \in AllTaskIDs : child[t] # "failed") =>
         (errs = <<>> /\ exitCode = 0)

C6_Witness ==
  /\ ReturnedNormally
  /\ exitCode = 0
  /\ \E t, u \in AllTaskIDs :
       /\ innerPut[t] = "err"
       /\ saved[u] = "saveErr" \/ outputsClosed[u] = "err"

\* C7: when the cache fetch failed, Fetch reported hit = false, the task was
\* not reported as cached, exec went on to run the command (processes.Exec
\* was called), and an error is returned for the task only if its command
\* failed.
C7_FetchErrorIsMiss ==
  \A t \in AllTaskIDs :
    (fetched[t].done /\ fetched[t].err) =>
      /\ ~fetched[t].hit
      /\ "TargetCached" \notin events[t]
      /\ pc[t] = "returned" => child[t] # "none"
      /\ result[t] # NoErr => child[t] = "failed"
      /\ (ReturnedNormally /\ \A u \in AllTaskIDs : child[u] # "failed") =>
           exitCode = 0

C7_Witness ==
  /\ ReturnedNormally
  /\ exitCode = 0
  /\ \E t \in AllTaskIDs :
       /\ fetched[t].err
       /\ child[t] = "ok"
       /\ "TargetBuilt" \in events[t]

NothingRan ==
  /\ ~cacheCreated
  /\ records = <<>>
  /\ workers = <<>>
  /\ \A t \in AllTaskIDs :
       /\ pc[t] = "pending"
       /\ ~fetched[t].done
       /\ child[t] = "none"
       /\ saved[t] = "none"

ConfigurationError ==
  \/ ~validateTasks(world.pipeline, world.targets)
  \/ ~ValidateGraph(TaskEdges(TopologicalGraph(world), world))

\* C8: when a requested target is not a task of the pipeline or the task
\* graph has a cycle, run never gets past building the task graph: no
\* visitor is invoked, no cache is created, no child is spawned, and run
\* returns an error (exit code 1).
C8_ConfigurationErrorIsFatal ==
  /\ ConfigurationError =>
       /\ phase \in {"start", "validated", "done"}
       /\ NothingRan
       /\ phase = "done" => (exitCode = 1 /\ runErr \in {"config", "internal"})
  /\ runErr = "config" => (ConfigurationError /\ NothingRan /\ exitCode = 1)

C8_Witness ==
  /\ world = WorldCycle
  /\ phase = "done"
  /\ runErr = "config"
  /\ exitCode = 1

\* C9: when CalculateFileHashes failed, runOperation has returned the error
\* with nothing dispatched; in run and dry-run mode alike a visitor, a cache
\* or a dry-run record exists only after the file hashes were computed.
C9_HashingErrorBeforeDispatch ==
  /\ runErr = "hash" => (phase = "done" /\ exitCode = 1 /\ NothingRan)
  /\ fileHashes = {} => NothingRan

C9_Witness ==
  /\ runErr = "hash"
  /\ phase = "done"
  /\ opts.mode = "dry"
  /\ taskVerts # {}

\* C10 as stated: a Put in progress never has to wait for the inner Put of
\* an earlier request, i.e. whenever a task is inside asyncCache.Put some
\* worker is free to receive its request.
C10_PutNeverWaits ==
  \A t \in AllTaskIDs :
    pc[t] = "put" => \E w \in DOMAIN workers : workers[w] = Idle

\* C10 amended: asyncCache.Put returns nil as soon as a worker has received
\* the request, before the inner backend's Put of that request has run (it
\* may have had to wait for a worker busy with an earlier request).
C10_PutReturnsBeforeInnerPut ==
  [][ \A t \in AllTaskIDs :
        (pc[t] = "put" /\ pc'[t] = "returned") =>
          /\ innerPut'[t] = "taken"
          /\ result'[t] = NoErr
          /\ \E w \in DOMAIN workers : workers[w] = Idle /\ workers'[w] = Busy(t)
    ]_vars

C10_Witness ==
  \E t, u \in AllTaskIDs :
    /\ pc[t] = "returned"
    /\ innerPut[t] = "taken"
    /\ pc[u] = "put"
    /\ \A w \in DOMAIN workers : workers[w] # Idle


\* C11: when asyncCache.Shutdown has returned, every request a Put accepted
\* has been through the inner backend's Put, which has returned, and every
\* worker has exited
C11_ShutdownDrains ==
  (phase = "done" /\ cacheCreated) =>
    /\ \A w \in DOMAIN workers : workers[w] = Exited
    /\ \A t \in AllTaskIDs : innerPut[t] # "none" => innerPut[t] \in {"ok", "err"}

C11_Witness ==
  /\ phase = "done"
  /\ cacheCreated
  /\ Len(workers) = 2
  /\ \E t, u \in AllTaskIDs : innerPut[t] = "ok" /\ innerPut[u] = "err"

(* ------------------- the asyncCache under several producers ------------- *)
Producers == 1..MaxProducers

\* the run's variables while only a cache is exercised
MainOff ==
  /\ world = WorldIndep
  /\ opts = [continueOnError |-> FALSE, parallel |-> FALSE, mode |-> "run",
             concurrency |-> 1, workers |-> 1]
  /\ phase = "off"
  /\ topoEdges = {}
  /\ taskVerts = {}
  /\ taskEdges = {}
  /\ fileHashes = {}
  /\ cacheCreated = FALSE
  /\ pc = [t \in AllTaskIDs |-> "pending"]
  /\ taskHash = [t \in AllTaskIDs |-> NoHash]
  /\ fetched = [t \in AllTaskIDs |-> NoFetch]
  /\ events = [t \in AllTaskIDs |-> {}]
  /\ result = [t \in AllTaskIDs |-> NoErr]
  /\ child = [t \in AllTaskIDs |-> "none"]
  /\ outputsClosed = [t \in AllTaskIDs |-> "none"]
  /\ saved = [t \in AllTaskIDs |-> "none"]
  /\ closing = FALSE
  /\ runningAtClose = {}
  /\ errs = <<>>
  /\ workers = <<>>
  /\ requestsClosed = FALSE
  /\ innerPut = [t \in AllTaskIDs |-> "none"]
  /\ records = <<>>
  /\ printed = <<>>
  /\ pendingExit = 0
  /\ runErr = "none"
  /\ exitCode = -1

\* every Put call a producer can make, and the arguments of each
AllRequests == Producers \X (1..MaxPuts)

PutArgs(req) ==
  [root |-> "repo", key |-> req, duration |-> req[2], files |-> {req[1]}]

\* asyncCache.Put: the cacheRequest it sends
Put(req) ==
  LET a == PutArgs(req) IN
    [root |-> a.root, key |-> a.key, files |-> a.files, duration |-> a.duration]

WorkerCalls_Skips(w, r) == <<>>

\* asyncCache.run: "c.realCache.Put(r.root, r.key, r.duration, r.files)", once
\* per request received
WorkerCalls(w, r) ==
  << [worker |-> w,
      args |-> [root |-> r.root, key |-> r.key, duration |-> r.duration,
                files |-> r.files]] >>

\* newAsyncCache: an unbuffered channel and config.Cache.Workers goroutines
newAsyncCache(n) ==
  /\ aN = n
  /\ aWorkers = [w \in 1..n |-> Idle]
  /\ aCalls = [p \in Producers |-> 0]
  /\ aBlocked = {}
  /\ aReturned = {}
  /\ aTaken = {}
  /\ aHandled = {}
  /\ aInner = [req \in AllRequests |-> <<>>]
  /\ aShutdown = "no"

InitAsync ==
  /\ MainOff
  /\ LimOff
  /\ HttpOff
  /\ FsOff
  /\ ExtraOff
  /\ \E n \in 0..MaxWorkers : newAsyncCache(n)

\* the request of producer p's current Put call
Request(p) == <<p, aCalls[p]>>

AsyncSend_DropWhenBusy(p) ==
  IF \E w \in DOMAIN aWorkers : aWorkers[w] = Idle
    THEN aBlocked' = aBlocked \cup {p} /\ UNCHANGED aReturned
    ELSE aReturned' = aReturned \cup {<<p, aCalls[p] + 1>>} /\ UNCHANGED aBlocked

\* asyncCache.Put: the send on c.requests; nothing else can happen to the
\* request than waiting for a receiver
AsyncSend(p) ==
  /\ aBlocked' = aBlocked \cup {p}
  /\ UNCHANGED aReturned

\* a producer calls asyncCache.Put
AsyncCallPut(p) ==
  /\ aShutdown = "no"
  /\ p \notin aBlocked
  /\ aCalls[p] < MaxPuts
  /\ aCalls' = [aCalls EXCEPT ![p] = @ + 1]
  /\ AsyncSend(p)
  /\ UNCHANGED <<aInner, aN, aTaken, aHandled, aWorkers, aShutdown>>
  /\ UNCHANGED asyncRest

\* asyncCache.run: the range loop receives a request; the sender's Put
\* returns nil
AsyncReceive(w, p) ==
  /\ w \in DOMAIN aWorkers
  /\ aWorkers[w] = Idle
  /\ p \in aBlocked
  /\ aWorkers' = [aWorkers EXCEPT ![w] = Busy(Request(p))]
  /\ aTaken' = aTaken \cup {Request(p)}
  /\ aBlocked' = aBlocked \ {p}
  /\ aReturned' = aReturned \cup {Request(p)}
  /\ aInner' = [aInner EXCEPT ![Request(p)] =
                  @ \o WorkerCalls(w, Put(Request(p)))]
  /\ UNCHANGED <<aN, aCalls, aHandled, aShutdown>>
  /\ UNCHANGED asyncRest

\* asyncCache.run: realCache.Put returns and its result is dropped
AsyncInnerPut(w) ==
  /\ w \in DOMAIN aWorkers
  /\ aWorkers[w] \notin {Idle, Exited}
  /\ aHandled' = aHandled \cup {aWorkers[w][2]}
  /\ aWorkers' = [aWorkers EXCEPT ![w] = Idle]
  /\ UNCHANGED <<aInner, aN, aCalls, aBlocked, aReturned, aTaken, aShutdown>>
  /\ UNCHANGED asyncRest

\* asyncCache.Shutdown: close(c.requests); its caller runs it once the
\* producers are done (deferred in executeTasks, after Execute returned)
AsyncShutdownClose ==
  /\ aShutdown = "no"
  /\ aBlocked = {}
  /\ aShutdown' = "closed"
  /\ UNCHANGED <<aInner, aN, aCalls, aBlocked, aReturned, aTaken, aHandled, aWorkers>>
  /\ UNCHANGED asyncRest

\* asyncCache.run: the range loop ends, wg.Done()
AsyncWorkerExit(w) ==
  /\ w \in DOMAIN aWorkers
  /\ aShutdown = "closed"
  /\ aWorkers[w] = Idle
  /\ aWorkers' = [aWorkers EXCEPT ![w] = Exited]
  /\ UNCHANGED <<aInner, aN, aCalls, aBlocked, aReturned, aTaken, aHandled, aShutdown>>
  /\ UNCHANGED asyncRest

\* asyncCache.Shutdown: wg.Wait() returns
AsyncShutdownReturn ==
  /\ aShutdown = "closed"
  /\ WaitGroupDone(aWorkers)
  /\ aShutdown' = "returned"
  /\ UNCHANGED <<aInner, aN, aCalls, aBlocked, aReturned, aTaken, aHandled, aWorkers>>
  /\ UNCHANGED asyncRest

NextAsync ==
  \/ \E p \in Producers : AsyncCallPut(p)
  \/ \E w \in 1..MaxWorkers, p \in Producers : AsyncReceive(w, p)
  \/ \E w \in 1..MaxWorkers : AsyncInnerPut(w)
  \/ AsyncShutdownClose
  \/ \E w \in 1..MaxWorkers : AsyncWorkerExit(w)
  \/ AsyncShutdownReturn

\* the Go scheduler runs a goroutine that can run: a worker waiting in the
\* range loop receives when a sender is blocked, and the inner Put returns
AsyncFairness ==
  /\ WF_vars(\E w \in 1..MaxWorkers, p \in Producers : AsyncReceive(w, p))
  /\ \A w \in 1..MaxWorkers : WF_vars(AsyncInnerPut(w))

SpecAsync == InitAsync /\ [][NextAsync]_vars /\ AsyncFairness

\* C12: a Put that finds no free receiver blocks: it returns only when a
\* worker has taken its request, never failing or dropping it, and with at
\* least one worker and a terminating inner Put every blocked Put returns
C12_BackpressureBlocksAndReturns ==
  /\ [](aReturned \subseteq aTaken)
  /\ \A p \in Producers : (aN >= 1 /\ p \in aBlocked) ~> (p \notin aBlocked)

C12_Witness ==
  /\ aN = 1
  /\ aBlocked # {}
  /\ \E w \in DOMAIN aWorkers : aWorkers[w] \notin {Idle, Exited}
  /\ aReturned # {}



(* ----------------------- the httpCache request limiter ------------------ *)
\* newHTTPCache: make(limiter, 20)
LimiterCap == 20

InitLimiter ==
  /\ MainOff
  /\ AsyncOff
  /\ HttpOff
  /\ FsOff
  /\ ExtraOff
  /\ lLen = 0
  /\ lIdle = MaxCallers
  /\ lAcquiring = [k \in HttpOps |-> 0]
  /\ lInside = [k \in HttpOps |-> 0]
  /\ lWriters = 0
  /\ lReaders = 0

LimiterHasRoom_Unbounded(len) == TRUE

\* limiter.acquire: the send on the buffered channel proceeds while the
\* channel holds fewer elements than its capacity
LimiterHasRoom(len) == len < LimiterCap

\* a caller enters httpCache.Put or httpCache.Fetch and reaches acquire()
LimCall(k) ==
  /\ lIdle > 0
  /\ lIdle' = lIdle - 1
  /\ lAcquiring' = [lAcquiring EXCEPT ![k] = @ + 1]
  /\ UNCHANGED <<lLen, lInside, lWriters, lReaders>>
  /\ UNCHANGED limRest

\* limiter.acquire returns; a Put then starts the write goroutine on the
\* pipe and reads the pipe to its end with ioutil.ReadAll
LimAcquire(k) ==
  /\ lAcquiring[k] > 0
  /\ LimiterHasRoom(lLen)
  /\ lLen' = lLen + 1
  /\ lAcquiring' = [lAcquiring EXCEPT ![k] = @ - 1]
  /\ lInside' = [lInside EXCEPT ![k] = @ + 1]
  /\ lWriters' = IF k = "Put" THEN lWriters + 1 ELSE lWriters
  /\ lReaders' = IF k = "Put" THEN lReaders + 1 ELSE lReaders
  /\ UNCHANGED lIdle
  /\ UNCHANGED limRest

\* how httpCache.write went: every storeFile succeeded, or one failed
WriteOutcomes == {"stored", "storeFileErr"}

ClosesPipe_OnSuccessOnly(outcome) == outcome = "stored"

\* httpCache.write: defer w.Close() runs however the loop went, a failing
\* storeFile being logged only
ClosesPipe(outcome) == TRUE

\* a write goroutine returns; with the pipe closed the Put's ReadAll returns
LimWrite ==
  /\ lWriters > 0
  /\ lWriters' = lWriters - 1
  /\ \E outcome \in WriteOutcomes :
       lReaders' = IF ClosesPipe(outcome) THEN lReaders - 1 ELSE lReaders
  /\ UNCHANGED <<lLen, lIdle, lAcquiring, lInside>>
  /\ UNCHANGED limRest

\* the return statements of Put (after ReadAll) and of Fetch
ReturnPaths(k) ==
  IF k = "Put" THEN {"errReadAll", "errTag", "PutArtifact"}
  ELSE {"errRetrieve", "miss", "hit"}

ReleasedOn_SuccessOnly(path) == IF path \in {"PutArtifact", "hit"} THEN 1 ELSE 0

\* defer cache.requestLimiter.release() receives one element on every
\* return path
ReleasedOn(path) == 1

\* the operation returns and its deferred limiter.release receives; a Put
\* returns only once its ReadAll has
LimRelease(k) ==
  /\ lInside[k] > (IF k = "Put" THEN lReaders ELSE 0)
  /\ \E path \in ReturnPaths(k) : lLen' = lLen - ReleasedOn(path)
  /\ lInside' = [lInside EXCEPT ![k] = @ - 1]
  /\ lIdle' = lIdle + 1
  /\ UNCHANGED <<lAcquiring, lWriters, lReaders>>
  /\ UNCHANGED limRest

NextLimiter ==
  \/ \E k \in HttpOps : LimCall(k)
  \/ \E k \in HttpOps : LimAcquire(k)
  \/ LimWrite
  \/ \E k \in HttpOps : LimRelease(k)

SpecLimiter == InitLimiter /\ [][NextLimiter]_vars

InsideLimiter == lInside["Put"] + lInside["Fetch"]
InAcquire == lAcquiring["Put"] + lAcquiring["Fetch"]

\* C13: at most 20 httpCache operations, Put and Fetch together, are between
\* acquire and release, and while 20 are, no further caller gets past acquire
C13_AtMostTwentyInside ==
  /\ [](InsideLimiter <= 20)
  /\ [][InsideLimiter = 20 =>
          \A k \in HttpOps : lInside'[k] <= lInside[k]]_vars

C13_Witness ==
  /\ InsideLimiter = 20
  /\ InAcquire = 1
  /\ lInside["Put"] > 0
  /\ lInside["Fetch"] > 0



(* ------------------------- httpCache: the artifact ---------------------- *)
\* var mtime = time.Date(2000, time.January, 1, ...), as Unix seconds
mtime == 946684800
\* const nobody = 65534
nobody == 65534

\* filepath.Separator of the host
Separator(os) == IF os = "windows" THEN "\\" ELSE "/"

\* a path string: its components with the separator between them
RECURSIVE JoinWith(_, _)
JoinWith(comps, sep) ==
  IF Len(comps) <= 1 THEN comps
  ELSE <<comps[1], sep>> \o JoinWith(Tail(comps), sep)

\* root.RelativePathString(name): filepath.Rel gives a native path
RelativePathString(os, comps) == JoinWith(comps, Separator(os))

\* filepath.ToSlash: every separator replaced by a slash
ToSlash(os, str) ==
  [i \in DOMAIN str |-> IF str[i] = Separator(os) THEN "/" ELSE str[i]]

\* filepath.FromSlash: every slash replaced by the separator
FromSlash(os, str) ==
  [i \in DOMAIN str |-> IF str[i] = "/" THEN Separator(os) ELSE str[i]]

\* the components of a native path
SplitPath(os, str) == SelectSeq(str, LAMBDA x : x # Separator(os))

\* the files handed to Put, in the order of the files argument; a link's
\* target is relative to the link's directory
RegularFile(path, content) ==
  [path |-> path, kind |-> "file", content |-> content, target |-> <<>>]
Directory(path) ==
  [path |-> path, kind |-> "dir", content |-> "", target |-> <<>>]
Symlink(path, target) ==
  [path |-> path, kind |-> "link", content |-> "", target |-> target]

FilesLinkFirst ==
  << Symlink(<<"link">>, <<"target">>), RegularFile(<<"target">>, "c1") >>
FilesTargetFirst ==
  << RegularFile(<<"target">>, "c1"), Symlink(<<"link">>, <<"target">>) >>
FilesNested ==
  << Directory(<<"dist">>), Symlink(<<"dist", "link">>, <<"target">>),
     RegularFile(<<"dist", "target">>, "c2") >>
FilesDirLink ==
  << Symlink(<<"link">>, <<"dist">>), Directory(<<"dist">>),
     RegularFile(<<"dist", "f">>, "c1") >>
FileSets == {FilesLinkFirst, FilesTargetFirst, FilesNested, FilesDirLink}

\* what Lstat reports of a source file besides its type
FileInfos ==
  { [ModTime |-> 1, AccessTime |-> 2, ChangeTime |-> 3, Uid |-> 1000,
     Gid |-> 1000, Uname |-> "dev", Gname |-> "staff"],
    [ModTime |-> mtime, AccessTime |-> 5, ChangeTime |-> 5, Uid |-> 0,
     Gid |-> 0, Uname |-> "root", Gname |-> "root"] }

NoPath == <<>>

\* tar.FileInfoHeader(info, link): the header takes the file's base name,
\* type, times and owner
FileInfoHeader(f, info, link) ==
  [Name |-> <<f.path[Len(f.path)]>>,
   Typeflag |-> CASE f.kind = "dir" -> "TypeDir"
                  [] f.kind = "file" -> "TypeReg"
                  [] OTHER -> "TypeSymlink",
   Linkname |-> link,
   Body |-> f.content,
   ModTime |-> info.ModTime, AccessTime |-> info.AccessTime,
   ChangeTime |-> info.ChangeTime, Uid |-> info.Uid, Gid |-> info.Gid,
   Uname |-> info.Uname, Gname |-> info.Gname]

NormalizeHeader_KeepsOwner(hdr, name) ==
  [hdr EXCEPT !.Name = name, !.ModTime = mtime, !.AccessTime = mtime,
              !.ChangeTime = mtime]

\* storeFile: the header's name, timestamps and owner are overwritten
NormalizeHeader(hdr, name) ==
  [hdr EXCEPT !.Name = name, !.ModTime = mtime, !.AccessTime = mtime,
              !.ChangeTime = mtime, !.Uid = nobody, !.Gid = nobody,
              !.Uname = "nobody", !.Gname = "nobody"]

NoHeader == <<>>

\* storeFile: Lstat fails for a file that is gone; otherwise the header and,
\* for a regular file, its content are written
storeFile(os, f, info, missing) ==
  IF f.path = missing
    THEN [err |-> TRUE, hdr |-> NoHeader]
    ELSE [err |-> FALSE,
          hdr |-> NormalizeHeader(
                    FileInfoHeader(f, info,
                      ToSlash(os, JoinWith(f.target, Separator(os)))),
                    ToSlash(os, RelativePathString(os, f.path)))]

\* signerVerifier.generateTag: a tag determined by the hash and the body
generateTag(body) == [key |-> "team", signs |-> body]

\* an absent x-artifact-tag header
NoTag == [key |-> "", signs |-> <<>>]

Durations == {0, 7}

NoArtifact == [present |-> FALSE, body |-> <<>>, duration |-> 0, tag |-> NoTag]
NoResponse ==
  [status |-> 0, duration |-> "", tag |-> NoTag, body |-> <<>>, read |-> "ok"]
PutIdle == [pc |-> "idle", i |-> 1, tar |-> <<>>, logged |-> 0, err |-> FALSE]

\* Fetch before it is called: the tar entries still to read, how the stream
\* ends, retrieve's files and missingLinks, and Fetch's results; dangling
\* keeps the links whose target was missing when their entry was read
FetchIdle ==
  [pc |-> "idle", stream |-> <<>>, end |-> "EOF", i |-> 1, files |-> <<>>,
   missingLinks |-> <<>>, dangling |-> {}, hit |-> FALSE, err |-> "none",
   duration |-> 0]



(* --------------------------- httpCache: Put ----------------------------- *)
InitHttp ==
  /\ MainOff
  /\ AsyncOff
  /\ LimOff
  /\ FsOff
  /\ ExtraOff
  /\ hEnv \in [os : {"posix", "windows"}, signing : BOOLEAN, files : FileSets,
               info : FileInfos, duration : Durations]
  /\ hPut = PutIdle
  /\ hServer = NoArtifact
  /\ hResp = NoResponse
  /\ hFetch = FetchIdle
  /\ hDst = <<>>

\* httpCache.Put starts httpCache.write on the pipe
HttpPutBegin ==
  /\ hPut.pc = "idle"
  /\ hFetch.pc = "idle"
  /\ hPut' = [hPut EXCEPT !.pc = "writing"]
  /\ UNCHANGED <<hEnv, hServer, hResp, hFetch, hDst>>
  /\ UNCHANGED httpRest

\* httpCache.write: one round of the loop over files; a storeFile error is
\* logged and the loop goes on. The file may have been removed since the
\* list was made (Lstat fails)
HttpWriteFile ==
  /\ hPut.pc = "writing"
  /\ hPut.i <= Len(hEnv.files)
  /\ \E gone \in BOOLEAN :
       LET f == hEnv.files[hPut.i]
           r == storeFile(hEnv.os, f, hEnv.info,
                          IF gone THEN f.path ELSE NoPath)
       IN hPut' = [hPut EXCEPT !.i = @ + 1,
                     !.tar = IF r.err THEN @ ELSE Append(@, r.hdr),
                     !.logged = IF r.err THEN @ + 1 ELSE @]
  /\ UNCHANGED <<hEnv, hServer, hResp, hFetch, hDst>>
  /\ UNCHANGED httpRest

\* what the remote cache keeps once PutArtifact succeeded
PutArtifact(body, duration, tag) ==
  [present |-> TRUE, body |-> body, duration |-> duration, tag |-> tag]

\* httpCache.Put after ioutil.ReadAll returned the whole pipe: the tag, then
\* PutArtifact, whose error is Put's result
HttpPutUpload ==
  /\ hPut.pc = "writing"
  /\ hPut.i > Len(hEnv.files)
  /\ \E uploaded \in BOOLEAN :
       /\ hPut' = [hPut EXCEPT !.pc = "done", !.err = ~uploaded]
       /\ hServer' =
            IF uploaded
              THEN PutArtifact(hPut.tar, hEnv.duration,
                     IF hEnv.signing THEN generateTag(hPut.tar) ELSE NoTag)
              ELSE hServer
  /\ UNCHANGED <<hEnv, hResp, hFetch, hDst>>
  /\ UNCHANGED httpRest

(* -------------------------- httpCache: Fetch ---------------------------- *)
\* strconv.Itoa and strconv.Atoi on the durations in use
Itoa(n) == IF n = 0 THEN "0" ELSE IF n = 7 THEN "7" ELSE "?"
Atoi(str) ==
  CASE str = "0" -> [err |-> FALSE, val |-> 0]
    [] str = "7" -> [err |-> FALSE, val |-> 7]
    [] OTHER -> [err |-> TRUE, val |-> 0]

BadTag(body) == [key |-> "other", signs |-> body]

\* the responses FetchArtifact can hand to retrieve: any status, duration
\* header and tag header around the stored body, read with or without an
\* error; "errComplete" is an error after the last byte, "errPartial" one
\* that cuts the body short
Responses(server) ==
  [status : {200, 404, 500},
   duration : {"", Itoa(server.duration), "abc"},
   tag : {NoTag, generateTag(server.body), BadTag(server.body)},
   body : {server.body},
   read : {"ok", "errComplete", "errPartial"}]

\* the response of a remote cache that behaves
HonestResponse(server) ==
  IF server.present
    THEN [status |-> 200, duration |-> Itoa(server.duration),
          tag |-> server.tag, body |-> server.body, read |-> "ok"]
    ELSE [status |-> 404, duration |-> "", tag |-> NoTag, body |-> <<>>,
          read |-> "ok"]

\* the bytes ioutil.ReadAll or the tar reader gets out of resp.Body
BodyRead(resp) ==
  IF resp.read = "errPartial" /\ Len(resp.body) > 0
    THEN SubSeq(resp.body, 1, Len(resp.body) - 1)
    ELSE resp.body

\* signerVerifier.validate
validate(b, expectedTag) == expectedTag = generateTag(b)

Miss == [kind |-> "miss", duration |-> 0, stream |-> <<>>, end |-> "EOF"]
RetrieveErr(what) ==
  [kind |-> what, duration |-> 0, stream |-> <<>>, end |-> "EOF"]

\* retrieve up to the tar reader, in the order of the code: the duration
\* header, the status, and with signing the tag and the buffered body whose
\* read error is dropped (b, _ := ioutil.ReadAll)
RetrieveHead(resp, signing) ==
  LET d == Atoi(resp.duration) IN
  IF resp.duration # "" /\ d.err THEN RetrieveErr("errDuration")
  ELSE IF resp.status = 404 THEN Miss
  ELSE IF resp.status # 200
         THEN RetrieveErr(IF resp.read = "ok" THEN "errStatus"
                          ELSE "errStatusBody")
  ELSE IF signing /\ resp.tag = NoTag THEN RetrieveErr("errNoTag")
  ELSE IF signing /\ ~validate(BodyRead(resp), resp.tag)
         THEN RetrieveErr("errBadTag")
  ELSE [kind |-> "extract",
        duration |-> IF resp.duration = "" THEN 0 ELSE d.val,
        stream |-> BodyRead(resp),
        end |-> IF signing \/ resp.read = "ok" THEN "EOF" ELSE "err"]

(* ---------------------- the tree Fetch restores into -------------------- *)
DirOf(path) == SubSeq(path, 1, Len(path) - 1)
Prefixes(path) == {SubSeq(path, 1, k) : k \in 1..Len(path)}
DirEntry == [kind |-> "dir", content |-> "", target |-> <<>>, flavor |-> ""]

\* os.MkdirAll
MkdirAll(dst, path) ==
  [q \in Prefixes(path) \ DOMAIN dst |-> DirEntry] @@ dst

\* EnsureDir: the directories above the path
EnsureDir(dst, path) == MkdirAll(dst, DirOf(path))

\* OpenFile(O_WRONLY|O_TRUNC|O_CREATE) and io.Copy
WriteFile(dst, path, content) ==
  [q \in {path} |->
     [kind |-> "file", content |-> content, target |-> <<>>, flavor |-> ""]]
  @@ dst

\* os.Symlink: on Windows the link is a directory link only if its target
\* is a directory when the link is made; elsewhere a link has no flavor
SymlinkTo(os, dst, path, target) ==
  LET to == DirOf(path) \o target
      flavor == IF os # "windows" THEN "any"
                ELSE IF to \in DOMAIN dst /\ dst[to].kind = "dir" THEN "dir"
                ELSE "file"
  IN [q \in {path} |->
        [kind |-> "link", content |-> "", target |-> target,
         flavor |-> flavor]] @@ dst

\* following a link: its target is there, and on Windows of the link's flavor
Resolves(dst, path) ==
  /\ path \in DOMAIN dst
  /\ dst[path].kind = "link"
  /\ LET to == DirOf(path) \o dst[path].target IN
       /\ to \in DOMAIN dst
       /\ \/ dst[path].flavor = "any"
          \/ ((dst[path].flavor = "dir") <=> (dst[to].kind = "dir"))

\* restoreSymlink: the target is looked up under the root; a missing target
\* is an error only when allowNonexistentTargets is false
restoreSymlink(os, dst, hdr, allowNonexistentTargets) ==
  LET linkTarget == FromSlash(os, hdr.Linkname)
      localLinkFilename == SplitPath(os, FromSlash(os, hdr.Name))
      localLinkTarget == SplitPath(os, FromSlash(os, hdr.Linkname))
      made == EnsureDir(dst, localLinkFilename)
  IN IF localLinkTarget \notin DOMAIN made /\ ~allowNonexistentTargets
       THEN [err |-> TRUE, dst |-> made]
       ELSE [err |-> FALSE,
             dst |-> SymlinkTo(os, made, localLinkFilename,
                               SplitPath(os, linkTarget))]



\* httpCache.Fetch calls retrieve: FetchArtifact fails or returns a response
HttpFetchArtifact ==
  /\ hFetch.pc = "idle"
  /\ hPut.pc \in {"idle", "done"}
  /\ \/ /\ hFetch' = [hFetch EXCEPT !.pc = "done", !.err = "errTransport"]
        /\ UNCHANGED hResp
     \/ /\ hResp' \in Responses(hServer) \cup {HonestResponse(hServer)}
        /\ hFetch' = [hFetch EXCEPT !.pc = "head"]
  /\ UNCHANGED <<hEnv, hPut, hServer, hDst>>
  /\ UNCHANGED httpRest

\* httpCache.Fetch: hit is false whenever retrieve returned an error
HttpFetchHit(hit, err) == IF err # "none" THEN FALSE ELSE hit

\* retrieve from the response to the tar reader
HttpRetrieveHead ==
  /\ hFetch.pc = "head"
  /\ LET r == RetrieveHead(hResp, hEnv.signing) IN
       hFetch' =
         IF r.kind = "extract"
           THEN [hFetch EXCEPT !.pc = "extract", !.stream = r.stream,
                               !.end = r.end, !.duration = r.duration]
         ELSE IF r.kind = "miss"
           THEN [hFetch EXCEPT !.pc = "done"]
         ELSE [hFetch EXCEPT !.pc = "done", !.err = r.kind]
  /\ UNCHANGED <<hEnv, hPut, hServer, hResp, hDst>>
  /\ UNCHANGED httpRest

\* retrieve: tr.Next() returned a header, which is restored by its type; a
\* symlink goes to restoreSymlink with allowNonexistentTargets = true
HttpExtractEntry ==
  /\ hFetch.pc = "extract"
  /\ hFetch.i <= Len(hFetch.stream)
  /\ LET hdr == hFetch.stream[hFetch.i]
         localPath == SplitPath(hEnv.os, FromSlash(hEnv.os, hdr.Name))
         files == Append(hFetch.files, localPath)
         link == restoreSymlink(hEnv.os, hDst, hdr, TRUE)
         targetMissing ==
           SplitPath(hEnv.os, FromSlash(hEnv.os, hdr.Linkname))
             \notin DOMAIN hDst
     IN CASE hdr.Typeflag = "TypeDir" ->
               /\ hDst' = MkdirAll(hDst, localPath)
               /\ hFetch' = [hFetch EXCEPT !.i = @ + 1, !.files = files]
          [] hdr.Typeflag = "TypeReg" ->
               /\ hDst' = WriteFile(EnsureDir(hDst, localPath), localPath,
                                    hdr.Body)
               /\ hFetch' = [hFetch EXCEPT !.i = @ + 1, !.files = files]
          [] OTHER ->
               /\ hDst' = link.dst
               /\ hFetch' =
                    [hFetch EXCEPT !.i = @ + 1, !.files = files,
                       !.missingLinks =
                          IF link.err THEN Append(@, hdr) ELSE @,
                       !.dangling =
                          IF targetMissing THEN @ \cup {localPath} ELSE @]
  /\ UNCHANGED <<hEnv, hPut, hServer, hResp>>
  /\ UNCHANGED httpRest

\* the links of missingLinks restored in order with
\* allowNonexistentTargets = false, up to the first error
RECURSIVE ReplayMissingLinks(_, _, _)
ReplayMissingLinks(os, dst, links) ==
  IF links = <<>> THEN [err |-> FALSE, dst |-> dst]
  ELSE LET r == restoreSymlink(os, dst, links[1], FALSE) IN
       IF r.err THEN r ELSE ReplayMissingLinks(os, r.dst, Tail(links))

\* retrieve: tr.Next() returned io.EOF (the missing links are replayed and
\* retrieve reports a hit) or another error
HttpExtractEnd ==
  /\ hFetch.pc = "extract"
  /\ hFetch.i > Len(hFetch.stream)
  /\ LET r == ReplayMissingLinks(hEnv.os, hDst, hFetch.missingLinks)
         err == IF hFetch.end # "EOF" THEN "errRead"
                ELSE IF r.err THEN "errLink" ELSE "none"
     IN /\ hDst' = IF hFetch.end = "EOF" THEN r.dst ELSE hDst
        /\ hFetch' = [hFetch EXCEPT !.pc = "done", !.err = err,
                        !.hit = HttpFetchHit(TRUE, err),
                        !.duration = IF err = "none" THEN @ ELSE 0]
  /\ UNCHANGED <<hEnv, hPut, hServer, hResp>>
  /\ UNCHANGED httpRest

NextHttp ==
  \/ HttpPutBegin
  \/ HttpWriteFile
  \/ HttpPutUpload
  \/ HttpFetchArtifact
  \/ HttpRetrieveHead
  \/ HttpExtractEntry
  \/ HttpExtractEnd

SpecHttp == InitHttp /\ [][NextHttp]_vars



(* ------------------------- httpCache: the claims ------------------------ *)
ResponseSeen == hFetch.pc = "done" /\ hFetch.err # "errTransport"

\* C14: a 404 response is a clean miss whatever its headers, any other
\* non-200 response is an error carrying the response body, and only a 200
\* response gives a hit
C14_NotFoundIsCleanMiss ==
  ResponseSeen =>
    /\ hResp.status = 404 => (~hFetch.hit /\ hFetch.err = "none")
    /\ (hResp.status \notin {200, 404} /\ hResp.read = "ok") =>
         hFetch.err = "errStatus"
    /\ hFetch.hit => hResp.status = 200

Extracting == hFetch.pc = "extract" \/ DOMAIN hDst # {}

\* C15: with signing, nothing is extracted unless the tag is present and
\* valid for the buffered body that is extracted; a missing tag, a failed
\* read of the body or an invalid tag gives an error, no hit, no extraction
C15_SignedFetchVerifiesBeforeExtracting ==
  hEnv.signing =>
    /\ Extracting =>
         (hResp.tag # NoTag /\ validate(hFetch.stream, hResp.tag))
    /\ (hFetch.pc \in {"extract", "done"} /\ hResp.status = 200
        /\ hResp.duration # "abc"
        /\ (hResp.tag = NoTag \/ hResp.read # "ok"
            \/ ~validate(hResp.body, hResp.tag))) =>
         (hFetch.pc = "done" /\ ~hFetch.hit /\ hFetch.err # "none"
          /\ DOMAIN hDst = {})

\* C16: a symlink entry whose target is missing when the entry is read is
\* not created then; it is kept in missingLinks until the end of the stream
C16_DanglingLinkIsDeferred ==
  hFetch.pc = "extract" =>
    \A path \in hFetch.dangling :
      /\ path \notin DOMAIN hDst
      /\ \E k \in DOMAIN hFetch.missingLinks :
           SplitPath(hEnv.os, FromSlash(hEnv.os, hFetch.missingLinks[k].Name))
             = path

PathOf(hdr) == SplitPath(hEnv.os, FromSlash(hEnv.os, hdr.Name))
TargetOf(hdr) ==
  DirOf(PathOf(hdr)) \o SplitPath(hEnv.os, FromSlash(hEnv.os, hdr.Linkname))

\* the links of a stream that come before the entry of their target
ForwardLinks(stream) ==
  {i \in DOMAIN stream :
     /\ stream[i].Typeflag = "TypeSymlink"
     /\ \E j \in DOMAIN stream : j > i /\ PathOf(stream[j]) = TargetOf(stream[i])}

\* retrieve was given the whole stream and nothing but the stream's order
\* stands in its way
StreamDelivered ==
  /\ hFetch.pc = "done"
  /\ hFetch.err # "errTransport"
  /\ RetrieveHead(hResp, hEnv.signing).kind = "extract"
  /\ hResp.read = "ok"

\* C17: a stream with a symlink entry before the entry of its target is
\* fetched with a hit and no error, and the link resolves to the target
C17_ForwardLinkResolves ==
  (StreamDelivered /\ ForwardLinks(hResp.body) # {}) =>
    /\ hFetch.hit
    /\ hFetch.err = "none"
    /\ \A i \in ForwardLinks(hResp.body) :
         Resolves(hDst, PathOf(hResp.body[i]))

\* the tree holds exactly the given files, with their contents and targets
SameTree(dst, files) ==
  /\ DOMAIN dst = {files[i].path : i \in DOMAIN files}
  /\ \A i \in DOMAIN files :
       /\ dst[files[i].path].kind = files[i].kind
       /\ dst[files[i].path].content = files[i].content
       /\ dst[files[i].path].target = files[i].target

PutThenFetch ==
  /\ hPut.pc = "done"
  /\ ~hPut.err
  /\ hFetch.pc = "done"
  /\ hFetch.err # "errTransport"
  /\ hResp = HonestResponse(hServer)

\* C18: Put of a file set followed by Fetch into an empty root is a hit with
\* the duration given to Put and restores exactly the files, their contents
\* and their link targets; no artifact lacking a file is uploaded
C18_HttpRoundTrip ==
  PutThenFetch =>
    /\ hFetch.hit
    /\ hFetch.duration = hEnv.duration
    /\ SameTree(hDst, hEnv.files)

\* C20: every entry Put writes has the fixed epoch as its three times,
\* 65534 and "nobody" as owner and group, and the workspace-relative path
\* with slashes as its name, whatever the source file's metadata
C20_TarEntriesNormalized ==
  hPut.pc \in {"writing", "done"} =>
    \A i \in DOMAIN hPut.tar :
      LET hdr == hPut.tar[i] IN
        /\ hdr.ModTime = 946684800
        /\ hdr.AccessTime = 946684800
        /\ hdr.ChangeTime = 946684800
        /\ hdr.Uid = 65534 /\ hdr.Gid = 65534
        /\ hdr.Uname = "nobody" /\ hdr.Gname = "nobody"
        /\ \E k \in DOMAIN hEnv.files :
             hdr.Name = JoinWith(hEnv.files[k].path, "/")

C20_Witness ==
  /\ hPut.pc = "done"
  /\ hEnv.os = "windows"
  /\ hEnv.info.Uid = 1000
  /\ Len(hPut.tar) = 3
  /\ hServer.present
  /\ hServer.body = hPut.tar

\* on a POSIX host a link made before its target resolves once the target
\* is there
ForwardLinkResolvesOnPosix == hEnv.os = "posix" => C17_ForwardLinkResolves

\* the round trip is exact when storeFile never failed
RoundTripWhenNothingGone == hPut.logged = 0 => C18_HttpRoundTrip



(* -------------------------------- fsCache ------------------------------- *)
FilesWithEmptyDir ==
  << Directory(<<"empty">>), RegularFile(<<"a">>, "c1") >>
FilesPlain ==
  << RegularFile(<<"a">>, "c1"), RegularFile(<<"dist", "b">>, "c2") >>
FsFileSets == {FilesTargetFirst, FilesNested, FilesWithEmptyDir, FilesPlain}

\* what os.Link does on the host: "nofollow" links a symlink itself,
\* "follow" links the file the symlink points to, "fail" is a failing
\* hard link (another device), after which CopyOrLinkFile copies
LinkModes == {"nofollow", "follow", "fail"}

\* a link target as stored in a tree: relative to the link's directory, or
\* absolute under the cache directory or the root
RelTarget(path) == [abs |-> FALSE, base |-> "", path |-> path]
AbsTarget(base, path) == [abs |-> TRUE, base |-> base, path |-> path]
NoTarget == RelTarget(<<>>)

FsDir == [kind |-> "dir", content |-> "", target |-> NoTarget]
FsFile(content) == [kind |-> "file", content |-> content, target |-> NoTarget]
FsLink(target) == [kind |-> "link", content |-> "", target |-> target]

\* the tree under the root Put reads from
SourceTree(files) ==
  [path \in {files[i].path : i \in DOMAIN files} |->
     LET f == CHOOSE g \in Range(files) : g.path = path IN
       CASE f.kind = "dir" -> FsDir
         [] f.kind = "file" -> FsFile(f.content)
         [] OTHER -> FsLink(RelTarget(f.target))]

FsPutIdle == [pc |-> "idle", left |-> {}, err |-> FALSE]
FsFetchIdle ==
  [pc |-> "idle", left |-> {}, hit |-> FALSE, err |-> FALSE, duration |-> 0]
NoMeta == [present |-> FALSE, duration |-> 0]

InitFsCache ==
  /\ MainOff
  /\ AsyncOff
  /\ LimOff
  /\ HttpOff
  /\ ExtraOff
  /\ fEnv \in [files : FsFileSets, duration : Durations, link : LinkModes]
  /\ fPut = FsPutIdle
  /\ fCache = <<>>
  /\ fMeta = NoMeta
  /\ fFetch = FsFetchIdle
  /\ fDst = <<>>

\* tree operations on the records of this part
FsMkdirAll(tree, path) ==
  [q \in Prefixes(path) \ DOMAIN tree |-> FsDir] @@ tree
FsEnsureDir(tree, path) == FsMkdirAll(tree, DirOf(path))
FsPlace(tree, path, entry) == [q \in {path} |-> entry] @@ tree

\* AbsolutePath.Readlink: a relative target is joined to the link's directory
Readlink(base, path, target) ==
  IF target.abs THEN target ELSE AbsTarget(base, DirOf(path) \o target.path)

\* the entry a symlink leads to inside one tree
Dereference(tree, path) == tree[DirOf(path) \o tree[path].target.path]

\* CopyOrLinkFile(from, to, fromMode, toMode, link = true, fallback = true):
\* a symlink is recreated only if fromMode has os.ModeSymlink; otherwise a
\* hard link, or a copy of what the path opens as when the hard link fails
CopyOrLinkFile(tree, base, path, fromModeSymlink, link) ==
  LET e == tree[path] IN
  IF fromModeSymlink
    THEN FsLink(Readlink(base, path, e.target))
  ELSE IF e.kind = "link" /\ link = "nofollow" THEN e
  ELSE IF e.kind = "link" THEN Dereference(tree, path)
  ELSE e

\* fsCache.Put
FsPutBegin ==
  /\ fPut.pc = "idle"
  /\ fFetch.pc = "idle"
  /\ fPut' = [fPut EXCEPT !.pc = "copying",
                          !.left = {fEnv.files[i].path : i \in DOMAIN fEnv.files}]
  /\ UNCHANGED <<fEnv, fCache, fMeta, fFetch, fDst>>
  /\ UNCHANGED fsRest

\* one digester takes a file from fileQueue: directories are skipped, any
\* other file is put under cacheDirectory/<hash> with fs.DirPermissions as
\* its fromMode
FsPutFile(path) ==
  /\ fPut.pc = "copying"
  /\ path \in fPut.left
  /\ LET src == SourceTree(fEnv.files) IN
       fCache' =
         IF src[path].kind = "dir" THEN fCache
         ELSE FsPlace(FsEnsureDir(fCache, path), path,
                      CopyOrLinkFile(src, "root", path, FALSE, fEnv.link))
  /\ fPut' = [fPut EXCEPT !.left = @ \ {path}]
  /\ UNCHANGED <<fEnv, fMeta, fFetch, fDst>>
  /\ UNCHANGED fsRest

\* g.Wait() returned nil: writeCacheMetaFile, whose error is not looked at,
\* and return nil
FsPutReturn ==
  /\ fPut.pc = "copying"
  /\ fPut.left = {}
  /\ fMeta' = [present |-> TRUE, duration |-> fEnv.duration]
  /\ fPut' = [fPut EXCEPT !.pc = "done"]
  /\ UNCHANGED <<fEnv, fCache, fFetch, fDst>>
  /\ UNCHANGED fsRest

\* fsCache.Fetch: a miss when cacheDirectory/<hash> does not exist,
\* otherwise RecursiveCopyOrLinkFile walks it
FsFetchBegin ==
  /\ fFetch.pc = "idle"
  /\ fPut.pc \in {"idle", "done"}
  /\ fFetch' = IF DOMAIN fCache = {}
                 THEN [fFetch EXCEPT !.pc = "done"]
                 ELSE [fFetch EXCEPT !.pc = "walking", !.left = DOMAIN fCache]
  /\ UNCHANGED <<fEnv, fPut, fCache, fMeta, fDst>>
  /\ UNCHANGED fsRest

\* the walk's callback on one entry: MkdirAll for a directory, otherwise
\* CopyOrLinkFile with the entry's mode type
FsFetchWalk(path) ==
  /\ fFetch.pc = "walking"
  /\ path \in fFetch.left
  /\ fDst' =
       IF fCache[path].kind = "dir" THEN FsMkdirAll(fDst, path)
       ELSE FsPlace(fDst, path,
              CopyOrLinkFile(fCache, "cache", path,
                             fCache[path].kind = "link", fEnv.link))
  /\ fFetch' = [fFetch EXCEPT !.left = @ \ {path}]
  /\ UNCHANGED <<fEnv, fPut, fCache, fMeta>>
  /\ UNCHANGED fsRest

\* fsCache.Fetch after the walk: readCacheMetaFile gives the duration or
\* an error
FsFetchReturn ==
  /\ fFetch.pc = "walking"
  /\ fFetch.left = {}
  /\ fFetch' = IF fMeta.present
                 THEN [fFetch EXCEPT !.pc = "done", !.hit = TRUE,
                                     !.duration = fMeta.duration]
                 ELSE [fFetch EXCEPT !.pc = "done", !.err = TRUE]
  /\ UNCHANGED <<fEnv, fPut, fCache, fMeta, fDst>>
  /\ UNCHANGED fsRest

NextFsCache ==
  \/ FsPutBegin
  \/ \E path \in DOMAIN SourceTree(fEnv.files) : FsPutFile(path)
  \/ FsPutReturn
  \/ FsFetchBegin
  \/ \E path \in DOMAIN fCache : FsFetchWalk(path)
  \/ FsFetchReturn

SpecFsCache == InitFsCache /\ [][NextFsCache]_vars

\* C19: after a Put that returned nil, Fetch into an empty root is a hit
\* with Put's duration and restores every entry of the file set at its
\* path, empty directories included, with link targets kept relative
C19_FsRoundTrip ==
  (fPut.pc = "done" /\ ~fPut.err /\ fFetch.pc = "done") =>
    /\ fFetch.hit
    /\ fFetch.duration = fEnv.duration
    /\ \A i \in DOMAIN fEnv.files :
         LET f == fEnv.files[i] IN
           /\ f.path \in DOMAIN fDst
           /\ fDst[f.path] = SourceTree(fEnv.files)[f.path]

\* regular files that were stored come back with their content
StoredFilesRestored ==
  (fPut.pc = "done" /\ fFetch.pc = "done" /\ fFetch.hit) =>
    \A i \in DOMAIN fEnv.files :
      fEnv.files[i].kind = "file" =>
        /\ fEnv.files[i].path \in DOMAIN fDst
        /\ fDst[fEnv.files[i].path] = FsFile(fEnv.files[i].content)

(* ------------------------------ the dry run ----------------------------- *)
RecordsOf(t) == {i \in DOMAIN records : records[i].TaskID = t}

VisitedOK(t) == pc[t] = "returned" /\ result[t] = NoErr

\* C21: in a dry run no visitor fetches from or puts to a cache or starts a
\* child process (no cache is even created); every task with a pipeline
\* entry whose visitor returned without error has exactly one record and no
\* other task has any; and when a visitor returned an error the dry run ends
\* with an error and prints no record, while otherwise it prints the records.
C21_DryRunRecordsOnly ==
  /\ ~cacheCreated /\ workers = <<>>
  /\ \A t \in AllTaskIDs :
       /\ ~fetched[t].done /\ child[t] = "none" /\ events[t] = {}
       /\ saved[t] = "none" /\ innerPut[t] = "none"
       /\ Cardinality(RecordsOf(t)) =
            IF VisitedOK(t) /\ HasPipelineEntry(t) THEN 1 ELSE 0
  /\ (phase = "done" /\ errs # <<>>) =>
       (runErr = "dry" /\ exitCode = 1 /\ printed = <<>>)
  /\ (phase = "done" /\ runErr = "none") => printed = records

C21_Witness ==
  /\ phase = "done"
  /\ errs # <<>>
  /\ records # <<>>
  /\ printed = <<>>
  /\ \E t \in taskVerts : VisitedOK(t) /\ Cardinality(RecordsOf(t)) = 1

\* C22: two dry runs over the same package graph, pipeline and hashes print
\* identical task lists, the order of the records and of each record's
\* dependencies and dependents included.
C22_DryRunsAgree ==
  (earlier.ran /\ phase = "done" /\ runErr = "none") => printed = earlier.tasks

\* the two runs do agree on which tasks they list, in which order, and on
\* every field but the order of the dependencies
SameButDependencyOrder(r1, r2) ==
  /\ r1.TaskID = r2.TaskID
  /\ r1.Command = r2.Command
  /\ r1.Dependents = r2.Dependents
  /\ Range(r1.Dependencies) = Range(r2.Dependencies)

DryRunsAgreeButDependencyOrder ==
  (earlier.ran /\ phase = "done" /\ runErr = "none") =>
    /\ Len(printed) = Len(earlier.tasks)
    /\ \A i \in DOMAIN printed : SameButDependencyOrder(printed[i], earlier.tasks[i])

(* --------------------------- tasks without a script --------------------- *)
\* C23: for a task of the pipeline whose package has no script for it, exec
\* computes the task's hash and returns nil, without a cache lookup, a child
\* process, a cache write or a trace event.
C23_NoScriptTaskOnlyHashes ==
  \A t \in AllTaskIDs :
    (opts.mode = "run" /\ HasPipelineEntry(t) /\ ~HasCommand(t)
       /\ pc[t] # "pending") =>
      /\ pc[t] = "returned" /\ result[t] = NoErr
      /\ taskHash[t] # NoHash
      /\ ~fetched[t].done /\ child[t] = "none"
      /\ saved[t] = "none" /\ innerPut[t] = "none"
      /\ events[t] = {}

\* b#build has no script; a#build, which depends on it, has run its command
C23_Witness ==
  /\ world = WorldNoScript
  /\ pc[<<"b", "build">>] = "returned"
  /\ taskHash[<<"b", "build">>].state = "ok"
  /\ events[<<"b", "build">>] = {}
  /\ child[<<"a", "build">>] = "ok"

(* ------------------------------- ordering ------------------------------- *)
Started(t) == pc[t] # "pending"

\* C24: a task's visitor has not started unless the visitor of every
\* predecessor has returned without error, and when exec has computed a
\* task's hash from a dependency set, exec has returned for every task of
\* that set.
C24_StartsAfterPredecessors ==
  \A t \in AllTaskIDs :
    /\ Started(t) => \A e \in taskEdges : e[2] = t => Succeeded(e[1])
    /\ taskHash[t] # NoHash =>
         \A d \in taskHash[t].deps : pc[d] = "returned"

\* a task with a predecessor has had its hash computed from it
C24_Witness ==
  /\ opts.mode = "run"
  /\ \E t \in AllTaskIDs :
       /\ taskHash[t].state = "ok"
       /\ taskHash[t].deps # {}
       /\ pc[t] = "running"

(* ------------- the "Remote Caching is unavailable" warning -------------- *)
Reporters == 1..MaxReporters

onceRest == <<mainVars, asyncVars, limVars, httpVars, fsVars, dryVars,
              laterVars>>

\* executeTasks: "once := &sync.Once{}", one per run, and the goroutines of
\* the cache layer that may call the callback
InitOnce ==
  /\ MainOff
  /\ AsyncOff
  /\ LimOff
  /\ HttpOff
  /\ FsOff
  /\ DryOff
  /\ LaterOff
  /\ oDone = 0
  /\ oMutex = 0
  /\ oPc = [r \in Reporters |-> "idle"]
  /\ oCalls = [r \in Reporters |-> 0]
  /\ oWarnings = 0

\* the cache layer calls the callback: once.Do(...) begins
OnceCall(r) ==
  /\ oPc[r] = "idle"
  /\ oCalls[r] < MaxReports
  /\ oCalls' = [oCalls EXCEPT ![r] = @ + 1]
  /\ oPc' = [oPc EXCEPT ![r] = "do"]
  /\ UNCHANGED <<oDone, oMutex, oWarnings, onceRest>>

\* once.Do: the atomic load of done; doSlow only when it is still 0
OnceDo(r) ==
  /\ oPc[r] = "do"
  /\ oPc' = [oPc EXCEPT ![r] = IF oDone = 0 THEN "doSlow" ELSE "idle"]
  /\ UNCHANGED <<oDone, oMutex, oCalls, oWarnings, onceRest>>

OnceRuns_Always(done) == TRUE

\* once.doSlow: under the mutex, "if o.done == 0 { f() }"
OnceRuns(done) == done = 0

\* once.doSlow: o.m.Lock(), and the warning when done is still 0
OnceDoSlow(r) ==
  /\ oPc[r] = "doSlow"
  /\ oMutex = 0
  /\ oMutex' = r
  /\ IF OnceRuns(oDone)
       THEN /\ oWarnings' = oWarnings + 1
            /\ oPc' = [oPc EXCEPT ![r] = "warned"]
       ELSE /\ oPc' = [oPc EXCEPT ![r] = "skipped"]
            /\ UNCHANGED oWarnings
  /\ UNCHANGED <<oDone, oCalls, onceRest>>

\* once.doSlow: the deferred store of done after f(), and o.m.Unlock()
OnceReturn(r) ==
  /\ oPc[r] \in {"warned", "skipped"}
  /\ oMutex = r
  /\ oDone' = IF oPc[r] = "warned" THEN 1 ELSE oDone
  /\ oMutex' = 0
  /\ oPc' = [oPc EXCEPT ![r] = "idle"]
  /\ UNCHANGED <<oCalls, oWarnings, onceRest>>

NextOnce ==
  \E r \in Reporters :
    \/ OnceCall(r)
    \/ OnceDo(r)
    \/ OnceDoSlow(r)
    \/ OnceReturn(r)

SpecOnce == InitOnce /\ [][NextOnce]_vars

\* C25: however many goroutines report the remote cache as unavailable and
\* however often, the warning is emitted at most once in the run.
C25_WarnedAtMostOnce == oWarnings <= 1

\* a goroutine that was inside once.Do together with the one that warned has
\* the mutex now and skips the warning; a third has reported twice
C25_Witness ==
  /\ oWarnings = 1
  /\ \E r1, r2 \in Reporters :
       r1 # r2 /\ oPc[r1] = "skipped" /\ oCalls[r2] = MaxReports

(* ------------------------ commands ended by closing --------------------- *)
EndedByClosing(t) == child[t] \in {"refused", "closed"}

FailedTasks == {t \in AllTaskIDs : child[t] = "failed"}

\* C26: a task whose command was refused or ended because the process manager
\* is closing has no TargetBuildFailed event and its visitor returned nil;
\* the error list holds the errors of the tasks whose command failed and no
\* other, and they alone give the exit code.
C26_ClosingIsNotAFailure ==
  /\ \A t \in AllTaskIDs :
       EndedByClosing(t) =>
         /\ "TargetBuildFailed" \notin events[t]
         /\ pc[t] = "returned"
         /\ result[t] = NoErr
  /\ (\E t \in AllTaskIDs : EndedByClosing(t)) =>
       /\ FailedTasks # {}
       /\ Range(errs) = {result[t] : t \in FailedTasks}
       /\ Len(errs) = Cardinality(FailedTasks)
       /\ ReturnedNormally => exitCode = ExpectedExitCode(errs)

\* one command failed with exit code 2 while another was running, which the
\* closing manager then ended
C26_Witness ==
  /\ ReturnedNormally
  /\ exitCode = 2
  /\ \E t, u \in AllTaskIDs :
       /\ child[t] = "failed"
       /\ child[u] = "closed"
       /\ u \in runningAtClose

(* ------------------------------ parallel mode --------------------------- *)
\* runOperation is past the parallel-mode rewrite
Rewritten == opts.parallel /\ fileHashes # {}

\* an edge of the task graph that the pipeline's own dependsOn entries give
PipelineEdge(e) ==
  LET def == DefinitionOf(world.pipeline, e[2]) IN
    \/ e[1] \in def.deps
    \/ e[1][1] = e[2][1] /\ Bare(e[1][2]) \in def.deps

\* C27: in parallel mode, once the file hashes are computed, the package
\* graph has no edge but those into the root, the task graph is the one
\* built from that graph and has no edge that comes from a package
\* dependency, a pending task whose pipeline dependencies have succeeded is
\* ready whatever other packages' tasks do, and the file hashes are those
\* computed for the task graph of before the rewrite.
C27_ParallelStripsPackageEdges ==
  Rewritten =>
    /\ \A e \in topoEdges : e[2] = ROOT_NODE_NAME
    /\ taskVerts = TaskVertices(topoEdges, world)
    /\ taskEdges = TaskEdges(topoEdges, world)
    /\ \A e \in taskEdges : PipelineEdge(e)
    /\ fileHashes =
         CalculateFileHashes(TaskVertices(TopologicalGraph(world), world))
    /\ \A t \in taskVerts :
         (pc[t] = "pending"
            /\ \A e \in taskEdges : (e[2] = t /\ PipelineEdge(e)) => Succeeded(e[1]))
           => t \in Ready

\* package a depends on package b, and in parallel mode a#build and b#build
\* run at the same moment
C27_Witness ==
  /\ opts.parallel
  /\ world = WorldTopo
  /\ child[<<"a", "build">>] = "running"
  /\ child[<<"b", "build">>] = "running"
  /\ fileHashes = {"a", "b"}

(* ------------------------ asyncCache: delivery -------------------------- *)
\* C29: a request asyncCache.Put has accepted (its Put returned) has had the
\* inner backend's Put called for it exactly once, by one worker, with the
\* root, key, duration and files the producer gave, and no inner Put is
\* called for a request that was not accepted.
C29_DeliveredExactlyOnce ==
  \A req \in AllRequests :
    /\ Len(aInner[req]) = IF req \in aReturned THEN 1 ELSE 0
    /\ \A i \in DOMAIN aInner[req] :
         /\ aInner[req][i].args = PutArgs(req)
         /\ aInner[req][i].worker \in 1..aN

\* both producers have made all their Put calls, two workers shared the
\* work, and Shutdown has returned
C29_Witness ==
  /\ aN = MaxWorkers
  /\ aShutdown = "returned"
  /\ aReturned = AllRequests
  /\ aHandled = AllRequests
  /\ {aInner[req][1].worker : req \in AllRequests} = 1..MaxWorkers

(* ------------------------- Shutdown on every exit ----------------------- *)
ProcessExited == exitCode # -1

\* the async cache has accepted the task's output save
PutAccepted(t) == innerPut[t] # "none"

\* C30: when the process of a task-executing run has exited, the cache's
\* Shutdown was called before, after the last Put, and every output save the
\* async cache accepted has been through the inner backend's Put.
C30_ShutdownOnEveryExit ==
  (ProcessExited /\ cacheCreated) =>
    /\ requestsClosed
    /\ \A t \in AllTaskIDs : PutAccepted(t) => innerPut[t] \in {"ok", "err"}

\* the process has exited from inside exec while a worker was still in the
\* inner Put of another task's outputs
SaveLostAtExit ==
  /\ phase = "exited"
  /\ ProcessExited
  /\ \E t \in AllTaskIDs : innerPut[t] = "taken"

(* ---------------------- fsCache.Put: the digester pool ------------------ *)
poolRest == <<mainVars, asyncVars, limVars, httpVars, fsVars, dryVars, onceVars,
              daemonVars, copyVars, argsVars>>

\* what happens to one file of the list inside a digester: it is a directory
\* (skipped), it is stored, RelativePathString or EnsureDir fails, or
\* CopyOrLinkFile fails after EnsureDir made the directory
FileOutcomes == {"dir", "ok", "errEarly", "errCopy"}

FileLists == UNION {[1..k -> FileOutcomes] : k \in 0..MaxFiles}

Digesters == 1..pEnv.numDigesters

Ranging == [pc |-> "range", file |-> 0]
Digesting(i) == [pc |-> "file", file |-> i]
DigesterNil == [pc |-> "nil", file |-> 0]
DigesterErr(i) == [pc |-> "err", file |-> i]

\* fsCache.Put up to the producer loop: numDigesters goroutines and a channel
\* buffered for numDigesters files; the cache starts empty
InitPool ==
  /\ MainOff
  /\ AsyncOff
  /\ LimOff
  /\ HttpOff
  /\ FsOff
  /\ DryOff
  /\ OnceOff
  /\ DaemonOff
  /\ CopyOff
  /\ ArgsOff
  /\ pEnv \in [numDigesters : 1..MaxDigesters, files : FileLists,
               metaWrite : {"ok", "err"}]
  /\ pSent = 0
  /\ pQueue = <<>>
  /\ pClosed = FALSE
  /\ pDigest = [d \in Digesters |-> Ranging]
  /\ pGroup = 0
  /\ pPut = "sending"
  /\ pStored = {}
  /\ pMeta = FALSE
  /\ pFetch = "idle"

\* "fileQueue <- file": the send completes when the buffer has room
PoolSend ==
  /\ pPut = "sending"
  /\ pSent < Len(pEnv.files)
  /\ Len(pQueue) < pEnv.numDigesters
  /\ pQueue' = Append(pQueue, pSent + 1)
  /\ pSent' = pSent + 1
  /\ UNCHANGED <<pEnv, pClosed, pDigest, pGroup, pPut, pStored, pMeta, pFetch,
                 poolRest>>

\* the producer loop is over: close(fileQueue), then g.Wait()
PoolClose ==
  /\ pPut = "sending"
  /\ pSent = Len(pEnv.files)
  /\ pClosed' = TRUE
  /\ pPut' = "waiting"
  /\ UNCHANGED <<pEnv, pSent, pQueue, pDigest, pGroup, pStored, pMeta, pFetch,
                 poolRest>>

\* a digester's "for file := range fileQueue" receives a file
DigestTake(d) ==
  /\ d \in DOMAIN pDigest
  /\ pDigest[d] = Ranging
  /\ pQueue # <<>>
  /\ pDigest' = [pDigest EXCEPT ![d] = Digesting(Head(pQueue))]
  /\ pQueue' = Tail(pQueue)
  /\ UNCHANGED <<pEnv, pSent, pClosed, pGroup, pPut, pStored, pMeta, pFetch,
                 poolRest>>

\* the loop body: a directory is skipped, a stored file lets the loop go
\* on, and any error is returned at once, ending the goroutine
DigestFile(d) ==
  /\ d \in DOMAIN pDigest
  /\ pDigest[d].pc = "file"
  /\ LET i == pDigest[d].file
         outcome == pEnv.files[i] IN
       /\ pStored' = CASE outcome = "ok" -> pStored \cup {<<"file", i>>}
                       [] outcome = "errCopy" -> pStored \cup {<<"dir", i>>}
                       [] OTHER -> pStored
       /\ IF outcome \in {"errEarly", "errCopy"}
            THEN /\ pDigest' = [pDigest EXCEPT ![d] = DigesterErr(i)]
                 /\ pGroup' = IF pGroup = 0 THEN i ELSE pGroup
            ELSE /\ pDigest' = [pDigest EXCEPT ![d] = Ranging]
                 /\ UNCHANGED pGroup
  /\ UNCHANGED <<pEnv, pSent, pQueue, pClosed, pPut, pMeta, pFetch, poolRest>>

\* the range loop ends on the closed and drained channel: return nil
DigestExit(d) ==
  /\ d \in DOMAIN pDigest
  /\ pDigest[d] = Ranging
  /\ pQueue = <<>>
  /\ pClosed
  /\ pDigest' = [pDigest EXCEPT ![d] = DigesterNil]
  /\ UNCHANGED <<pEnv, pSent, pQueue, pClosed, pGroup, pPut, pStored, pMeta,
                 pFetch, poolRest>>

\* writeCacheMetaFile as Put calls it: its error is not looked at
WritesMeta(group) == group = 0

\* g.Wait() returns when every goroutine has returned, with the first error;
\* without one, writeCacheMetaFile and "return nil"
PoolWait ==
  /\ pPut = "waiting"
  /\ \A d \in DOMAIN pDigest : pDigest[d].pc \in {"nil", "err"}
  /\ IF WritesMeta(pGroup)
       THEN /\ pMeta' = (pEnv.metaWrite = "ok")
            /\ pPut' = "nil"
       ELSE /\ pPut' = "err"
            /\ UNCHANGED pMeta
  /\ UNCHANGED <<pEnv, pSent, pQueue, pClosed, pDigest, pGroup, pStored,
                 pFetch, poolRest>>

\* cacheDirectory/<hash> exists once a digester's EnsureDir has succeeded
CachedFolderExists == pStored # {}

\* fsCache.Fetch after the Put: a miss without the folder, otherwise the
\* copy into the root and readCacheMetaFile
PoolFetch ==
  /\ pPut \in {"nil", "err"}
  /\ pFetch = "idle"
  /\ pFetch' = IF ~CachedFolderExists THEN "miss"
               ELSE IF pMeta THEN "hit" ELSE "err"
  /\ UNCHANGED <<pEnv, pSent, pQueue, pClosed, pDigest, pGroup, pPut, pStored,
                 pMeta, poolRest>>

NextPool ==
  \/ PoolSend
  \/ PoolClose
  \/ \E d \in 1..MaxDigesters : DigestTake(d)
  \/ \E d \in 1..MaxDigesters : DigestFile(d)
  \/ \E d \in 1..MaxDigesters : DigestExit(d)
  \/ PoolWait
  \/ PoolFetch

\* the Go scheduler runs a goroutine that can take a step
SpecPool == InitPool /\ [][NextPool]_vars /\ WF_vars(NextPool)

PutReturned == pPut \in {"nil", "err"}

\* C31: every fsCache.Put call returns, whatever the file list and whichever
\* files fail.
C31_PutTerminates == <>PutReturned

\* the producer is blocked in its send with the buffer full and every
\* digester gone
ProducerStuck ==
  /\ pPut = "sending"
  /\ pSent < Len(pEnv.files)
  /\ Len(pQueue) = pEnv.numDigesters
  /\ \A d \in DOMAIN pDigest : pDigest[d].pc = "err"

\* when Put does return, it returns nil without any digester error and the
\* first digester error otherwise
PutReturnsFirstError ==
  /\ pPut = "nil" => (pGroup = 0 /\ \A d \in DOMAIN pDigest : pDigest[d] = DigesterNil)
  /\ pPut = "err" => (pGroup # 0 /\ \E d \in DOMAIN pDigest : pDigest[d] = DigesterErr(pGroup))

\* the metadata file exists only after a Put that returned nil, a Fetch is
\* a hit only then, and a Fetch that finds the folder without the metadata
\* file returns an error
HitOnlyAfterSuccessfulPut ==
  /\ pMeta => pPut = "nil"
  /\ pFetch = "hit" => pPut = "nil"
  /\ (pFetch \notin {"idle", "off"} /\ CachedFolderExists /\ ~pMeta) =>
       pFetch = "err"

\* C32: fsCache.Fetch is a hit only after a Put that completed successfully
\* (the metadata file is written only then, and a folder without readable
\* metadata makes Fetch return an error), and after a Put that returned nil
\* the Fetch of the same hash is a hit.
C32_HitIffPutSucceeded ==
  /\ HitOnlyAfterSuccessfulPut
  /\ (pPut = "nil" /\ pFetch \notin {"idle", "off"}) => pFetch = "hit"

\* Put stored a file and returned nil, but the metadata file could not be
\* written and the Fetch returns an error
NilPutThenFetchError ==
  /\ pPut = "nil"
  /\ pFetch = "err"
  /\ \E i \in DOMAIN pEnv.files : <<"file", i>> \in pStored

(* ------------------- httpCache.Fetch: a failed restore ------------------ *)
\* Fetch has returned hit = false
FetchMissed == hFetch.pc = "done" /\ ~hFetch.hit

\* C33: whenever httpCache.Fetch has returned hit = false, nothing under the
\* root has been created or modified by it: the tree Fetch restores into is
\* still the empty tree it was called with
C33_MissLeavesRootUntouched == FetchMissed => hDst = <<>>

\* Fetch returned hit = false after a read error of the tar stream, and the
\* entries read before the error are on disk
MissAfterPartialExtract ==
  /\ FetchMissed
  /\ hFetch.err = "errRead"
  /\ hDst # <<>>

\* the part of C33 that holds: a Fetch that failed before the tar reader was
\* created (transport error, 404, other status, bad duration header, missing
\* or invalid tag) has touched nothing
MissBeforeExtractLeavesRootUntouched ==
  (FetchMissed /\ hFetch.i = 1 /\ hFetch.err \notin {"errRead", "errLink"})
    => hDst = <<>>

(* ------------------- the limiter: permits are given back ---------------- *)
\* an operation that is past acquire can take a step: a write goroutine
\* returns, or a Put or a Fetch returns
InsideCanStep == ENABLED (LimWrite \/ \E k \in HttpOps : LimRelease(k))

\* C34: every Put and Fetch gives back the permit it acquired on every return
\* path, and a Put always returns because the write goroutine closes the pipe
\* even when storing a file failed: the permits held are exactly those of the
\* operations between acquire and return (none once every caller has
\* returned), every Put reading the pipe has a write goroutine that will
\* close it, and while any operation holds a permit one of them can go on,
\* so a caller waiting in acquire is never locked out for good
C34_PermitsAlwaysReleased ==
  /\ lLen = InsideLimiter
  /\ InsideLimiter + InAcquire = 0 => lLen = 0
  /\ lReaders = lWriters
  /\ InsideLimiter > 0 => InsideCanStep
  /\ InAcquire > 0 => (LimiterHasRoom(lLen) \/ InsideCanStep)

\* the limiter is full with a caller waiting in acquire, while Puts whose
\* write goroutine has closed the pipe are about to return and Fetches with
\* them, after earlier operations have returned on their paths
C34_Witness ==
  /\ InsideLimiter = LimiterCap
  /\ InAcquire = 1
  /\ lInside["Put"] > lReaders
  /\ lReaders > 0
  /\ lInside["Fetch"] > 0

(* ----------------------------- hashing errors --------------------------- *)
\* C35: a task whose CalculateTaskHash returned an error does not proceed:
\* exec performs no cache lookup for it, spawns no child process and saves no
\* outputs.
C35_HashErrorStopsExec ==
  \A t \in AllTaskIDs :
    taskHash[t].state = "err" =>
      /\ ~fetched[t].done
      /\ child[t] = "none"
      /\ saved[t] = "none"

\* exec went through the cache lookup, the child process and the save for a
\* task whose hash could not be computed
HashErrorThenSaved ==
  \E t \in AllTaskIDs :
    /\ taskHash[t].state = "err"
    /\ fetched[t].done
    /\ child[t] = "ok"
    /\ saved[t] # "none"

\* what does hold: a task with a hash error that has no script stops there
HashErrorNoScriptStops ==
  \A t \in AllTaskIDs :
    (taskHash[t].state = "err" /\ ~HasCommand(t)) =>
      (~fetched[t].done /\ child[t] = "none" /\ saved[t] = "none")

(* ------------------------- the daemon's idle timeout -------------------- *)
daemonRest == <<mainVars, asyncVars, limVars, httpVars, fsVars, dryVars,
                onceVars, poolVars, copyVars, argsVars>>

Requests == 1..MaxRequests

\* time.After(dt.timeout): a timer that will send once on its channel; seen
\* tells whether the loop has received a request since the timer was made
NewTimer == [state |-> "armed", seen |-> FALSE]

\* runTurboServer up to its select: the listener is open, newTimeout has made
\* both channels, loop has called time.After and is in its select, Serve runs
InitDaemon ==
  /\ MainOff
  /\ AsyncOff
  /\ LimOff
  /\ HttpOff
  /\ FsOff
  /\ DryOff
  /\ OnceOff
  /\ PoolOff
  /\ CopyOff
  /\ ArgsOff
  /\ dMain = "select"
  /\ dServe = "serving"
  /\ dCtx = FALSE
  /\ dTimer = NewTimer
  /\ dCloses = 0
  /\ dLoop = "select"
  /\ dSpun = FALSE
  /\ dReqs = [r \in Requests |-> "none"]

\* the process is alive: no goroutine has panicked
Alive == dLoop # "panicked"

\* a client's request reaches the server, and its interceptor blocks in
\* "dt.reqCh <- struct{}{}"
DaemonRequest(r) ==
  /\ Alive
  /\ dServe = "serving"
  /\ dReqs[r] = "none"
  /\ dReqs' = [dReqs EXCEPT ![r] = "sending"]
  /\ UNCHANGED <<dMain, dServe, dCtx, dTimer, dCloses, dLoop, dSpun>>
  /\ UNCHANGED daemonRest

Rearm_KeepsTimer(timer) == timer

\* loop, case <-dt.reqCh: "timeoutCh = time.After(dt.timeout)"
Rearm(timer) == NewTimer

\* loop receives from reqCh and re-arms; the interceptor goes on to the
\* handler
DaemonReceive(r) ==
  /\ dLoop = "select"
  /\ dReqs[r] = "sending"
  /\ dReqs' = [dReqs EXCEPT ![r] = "handling"]
  /\ dTimer' = Rearm([dTimer EXCEPT !.seen = TRUE])
  /\ UNCHANGED <<dMain, dServe, dCtx, dCloses, dLoop, dSpun>>
  /\ UNCHANGED daemonRest

\* "return handler(ctx, req)"
DaemonHandle(r) ==
  /\ Alive
  /\ dReqs[r] = "handling"
  /\ dReqs' = [dReqs EXCEPT ![r] = "done"]
  /\ UNCHANGED <<dMain, dServe, dCtx, dTimer, dCloses, dLoop, dSpun>>
  /\ UNCHANGED daemonRest

\* the timeout period has passed since the timer was made: the runtime sends
\* on the timer's channel
DaemonTimerExpires ==
  /\ Alive
  /\ dTimer.state = "armed"
  /\ dTimer' = [dTimer EXCEPT !.state = "expired"]
  /\ UNCHANGED <<dMain, dServe, dCtx, dCloses, dLoop, dSpun, dReqs>>
  /\ UNCHANGED daemonRest

AfterBreak_Returns == "returned"

\* where loop is after the "break" of a select case: the break leaves the
\* select statement, and the for statement around it goes on
AfterBreak == "select"

\* loop, case <-timeoutCh: close(dt.timedOut), which panics when the channel
\* is closed already; the timer's channel never delivers again
DaemonTimeout ==
  /\ dLoop = "select"
  /\ dTimer.state = "expired"
  /\ dTimer' = [dTimer EXCEPT !.state = "drained"]
  /\ dCloses' = dCloses + 1
  /\ dLoop' = IF dCloses >= 1 THEN "panicked" ELSE AfterBreak
  /\ UNCHANGED <<dMain, dServe, dCtx, dSpun, dReqs>>
  /\ UNCHANGED daemonRest

\* loop, case <-dt.ctx.Done(): break
DaemonCtxDone ==
  /\ dLoop = "select"
  /\ dCtx
  /\ dLoop' = AfterBreak
  /\ dSpun' = TRUE
  /\ UNCHANGED <<dMain, dServe, dCtx, dTimer, dCloses, dReqs>>
  /\ UNCHANGED daemonRest

\* s.Serve(lis) returns an error, which the goroutine sends on errCh
DaemonServeFails ==
  /\ Alive
  /\ dServe = "serving"
  /\ dServe' = "failed"
  /\ UNCHANGED <<dMain, dCtx, dTimer, dCloses, dLoop, dSpun, dReqs>>
  /\ UNCHANGED daemonRest

\* runTurboServer, case <-errCh: cancel() and return nil
DaemonMainErr ==
  /\ Alive
  /\ dMain = "select"
  /\ dServe = "failed"
  /\ dCtx' = TRUE
  /\ dMain' = "returned"
  /\ UNCHANGED <<dServe, dTimer, dCloses, dLoop, dSpun, dReqs>>
  /\ UNCHANGED daemonRest

\* runTurboServer, case <-timeout.timedOut: the receive from the closed
\* channel and the Printf
DaemonMainTimedOut ==
  /\ Alive
  /\ dMain = "select"
  /\ dCloses >= 1
  /\ dMain' = "timedOut"
  /\ UNCHANGED <<dServe, dCtx, dTimer, dCloses, dLoop, dSpun, dReqs>>
  /\ UNCHANGED daemonRest

\* s.Stop(), return nil and the deferred cancel()
DaemonStop ==
  /\ Alive
  /\ dMain = "timedOut"
  /\ dServe' = "stopped"
  /\ dCtx' = TRUE
  /\ dMain' = "returned"
  /\ UNCHANGED <<dTimer, dCloses, dLoop, dSpun, dReqs>>
  /\ UNCHANGED daemonRest

NextDaemon ==
  \/ \E r \in Requests : DaemonRequest(r)
  \/ \E r \in Requests : DaemonReceive(r)
  \/ \E r \in Requests : DaemonHandle(r)
  \/ DaemonTimerExpires
  \/ DaemonTimeout
  \/ DaemonCtxDone
  \/ DaemonServeFails
  \/ DaemonMainErr
  \/ DaemonMainTimedOut
  \/ DaemonStop

\* the scheduler runs a goroutine that can run, and a select with several
\* ready cases picks among them at random, so a case that stays ready is
\* taken; timers and clients are not forced to act
DaemonFairness ==
  /\ WF_vars(\E r \in Requests : DaemonReceive(r))
  /\ WF_vars(DaemonTimeout)
  /\ WF_vars(DaemonCtxDone)
  /\ WF_vars(DaemonMainErr \/ DaemonMainTimedOut \/ DaemonStop)
  /\ WF_vars(\E r \in Requests : DaemonHandle(r))

SpecDaemon == InitDaemon /\ [][NextDaemon]_vars /\ DaemonFairness

\* C36: the timedOut channel is closed at most once over the life of the
\* server, whatever the interleaving of requests, timer expiries and
\* cancellation
C36_TimedOutClosedAtMostOnce == dCloses <= 1

\* the second close happens while the server is still serving: runTurboServer
\* has not got to s.Stop() yet
SecondCloseBeforeStop ==
  /\ dCloses = 2
  /\ dLoop = "panicked"
  /\ dServe = "serving"

\* the idle timeout has fired, or the server context has been cancelled
LoopShouldEnd == dCloses >= 1 \/ dCtx

\* C37: daemonTimeout.loop terminates: once the idle timeout has fired or
\* the context has been cancelled, the loop eventually returns
C37_LoopTerminates == LoopShouldEnd ~> (dLoop = "returned")

\* loop is never past its for statement
LoopNeverReturns == dLoop # "returned"

\* after runTurboServer has returned, the loop is back in its select, has
\* taken the ctx.Done() case already and will take it again
LoopSpinsAfterCancel ==
  /\ dMain = "returned"
  /\ dCtx
  /\ dSpun
  /\ dLoop = "select"
  /\ ENABLED DaemonCtxDone

\* the interceptor of request r is blocked in its send on reqCh
Sending(r) == dReqs[r] = "sending"

\* C38: the daemon stops on idleness only: the loop re-arms the idle timer
\* with every request before the request's handler runs; timedOut is closed,
\* and the server stopped for it, only when a timer has run its full period
\* with no request received since it was made; and an interceptor never
\* stays blocked in its send on the request channel
C38_StopsOnIdlenessOnly ==
  /\ [][\A r \in Requests :
          (dReqs[r] # "handling" /\ dReqs'[r] = "handling") =>
            (Sending(r) /\ dTimer' = NewTimer)]_vars
  /\ [][dCloses' > dCloses => (dTimer.state = "expired" /\ ~dTimer.seen)]_vars
  /\ [](dMain = "timedOut" \/ dServe = "stopped" => dCloses >= 1)
  /\ \A r \in Requests : Sending(r) ~> (~Sending(r) \/ ~Alive)

\* the timeout fired and the server was stopped for it after a request had
\* been handled under a timer of its own, and a request that came in after
\* the timeout was still received by the loop
C38_Witness ==
  /\ dServe = "stopped"
  /\ dCloses = 1
  /\ dReqs[1] = "done"
  /\ dReqs[2] = "handling"
  /\ dTimer = NewTimer

(* ------------------------------ CopyOrLinkFile -------------------------- *)
copyRest == <<mainVars, asyncVars, limVars, httpVars, fsVars, dryVars,
              onceVars, poolVars, daemonVars, argsVars>>

\* what is at the destination: nothing, a hard link to the source, a copy
FsNothing == [kind |-> "none", content |-> "", target |-> NoTarget]
FsHardLink == [kind |-> "hardlink", content |-> "", target |-> NoTarget]
FsCopy == [kind |-> "copy", content |-> "", target |-> NoTarget]

\* the link targets a symlink source may have
CopyTargets == {RelTarget(<<"b">>), AbsTarget("root", <<"dist", "b">>)}

\* from, inside the cache directory, and to, inside the root
CopyFrom == <<"dist", "link">>

\* CopyOrLinkFile(from, to, fromMode, toMode, link, fallback) is called:
\* symlinkMode is fromMode & os.ModeSymlink != 0, target what the source
\* points to when it is a symlink, and readlink, symlink, hardlink and copy
\* tell whether os.Readlink, os.Symlink, os.Link and CopyFile will fail
InitCopy ==
  /\ MainOff
  /\ AsyncOff
  /\ LimOff
  /\ HttpOff
  /\ FsOff
  /\ DryOff
  /\ OnceOff
  /\ PoolOff
  /\ DaemonOff
  /\ ArgsOff
  /\ cIn \in [symlinkMode : BOOLEAN, link : BOOLEAN, fallback : BOOLEAN,
              target : CopyTargets,
              readlink : {"ok", "err"}, symlink : {"ok", "err"},
              hardlink : {"ok", "err"}, copy : {"ok", "err"}]
  /\ cPc = "start"
  /\ cCalls = <<>>
  /\ cTo = FsNothing
  /\ cRet = "none"

\* "dest, err := from.Readlink(); if err != nil { return err }"
CopyReadlink ==
  /\ cPc = "start"
  /\ cIn.link
  /\ cIn.symlinkMode
  /\ cCalls' = Append(cCalls, "Readlink")
  /\ IF cIn.readlink = "err"
       THEN /\ cPc' = "returned"
            /\ cRet' = "errReadlink"
       ELSE /\ cPc' = "symlink"
            /\ UNCHANGED cRet
  /\ UNCHANGED <<cIn, cTo>>
  /\ UNCHANGED copyRest

\* "return dest.Symlink(to)": to becomes a symlink to dest
CopySymlink ==
  /\ cPc = "symlink"
  /\ cCalls' = Append(cCalls, "Symlink")
  /\ cPc' = "returned"
  /\ IF cIn.symlink = "err"
       THEN /\ cRet' = "errSymlink"
            /\ UNCHANGED cTo
       ELSE /\ cRet' = "nil"
            /\ cTo' = FsLink(Readlink("cache", CopyFrom, cIn.target))
  /\ UNCHANGED cIn
  /\ UNCHANGED copyRest

FallsBack_Always(err, fallback) == err

\* "if err := from.Link(to); err == nil || !fallback { return err }"
FallsBack(err, fallback) == err /\ fallback

\* from.Link(to), and what follows it
CopyLink ==
  /\ cPc = "start"
  /\ cIn.link
  /\ ~cIn.symlinkMode
  /\ cCalls' = Append(cCalls, "Link")
  /\ IF FallsBack(cIn.hardlink = "err", cIn.fallback)
       THEN /\ cPc' = "copy"
            /\ UNCHANGED <<cTo, cRet>>
       ELSE /\ cPc' = "returned"
            /\ cRet' = IF cIn.hardlink = "err" THEN "errLink" ELSE "nil"
            /\ cTo' = IF cIn.hardlink = "err" THEN cTo ELSE FsHardLink
  /\ UNCHANGED cIn
  /\ UNCHANGED copyRest

\* "return CopyFile(from, to, toMode)", reached with link false or after a
\* failed hard link
CopyCopyFile ==
  /\ \/ cPc = "start" /\ ~cIn.link
     \/ cPc = "copy"
  /\ cCalls' = Append(cCalls, "CopyFile")
  /\ cPc' = "returned"
  /\ cRet' = IF cIn.copy = "err" THEN "errCopy" ELSE "nil"
  /\ cTo' = IF cIn.copy = "err" THEN cTo ELSE FsCopy
  /\ UNCHANGED cIn
  /\ UNCHANGED copyRest

NextCopy ==
  \/ CopyReadlink
  \/ CopySymlink
  \/ CopyLink
  \/ CopyCopyFile

SpecCopy == InitCopy /\ [][NextCopy]_vars

\* where a symlink placed at path under base leads
LeadsTo(base, path, link) == Readlink(base, path, link.target)

\* C39: with link false the file is always copied; with link true and a
\* regular source the hard link is tried first, and the copy is made only
\* when the link failed and fallback is true, the link error being returned
\* with no copy when fallback is false; with link true and a symlink source
\* (fromMode has os.ModeSymlink) a symlink leading where the source leads is
\* made at the destination, and a failure to make it is returned with no copy
C39_CopyOrLinkFile ==
  cPc = "returned" =>
    /\ ~cIn.link =>
         /\ cCalls = <<"CopyFile">>
         /\ cRet = "nil" <=> cTo = FsCopy
    /\ (cIn.link /\ ~cIn.symlinkMode) =>
         /\ cCalls[1] = "Link"
         /\ cCalls = <<"Link", "CopyFile">> <=>
              (cIn.hardlink = "err" /\ cIn.fallback)
         /\ cIn.hardlink = "ok" => (cRet = "nil" /\ cTo = FsHardLink)
         /\ (cIn.hardlink = "err" /\ ~cIn.fallback) =>
              (cRet = "errLink" /\ cTo = FsNothing /\ cCalls = <<"Link">>)
    /\ (cIn.link /\ cIn.symlinkMode) =>
         /\ "CopyFile" \notin Range(cCalls)
         /\ "Link" \notin Range(cCalls)
         /\ cRet = "nil" =>
              /\ cTo.kind = "link"
              /\ LeadsTo("root", CopyFrom, cTo)
                   = LeadsTo("cache", CopyFrom, FsLink(cIn.target))
         /\ (cIn.readlink = "err" \/ cIn.symlink = "err") =>
              (cRet \in {"errReadlink", "errSymlink"} /\ cTo = FsNothing)

\* a hard link that failed with fallback off: the error came back and
\* nothing was copied
C39_Witness ==
  /\ cPc = "returned"
  /\ cIn.link /\ ~cIn.symlinkMode /\ ~cIn.fallback
  /\ cIn.hardlink = "err"
  /\ cRet = "errLink"
  /\ cCalls = <<"Link">>

\* the copy made after a failed hard link, and the symlink made for a
\* relative source link
CopyAfterFailedLink ==
  /\ cPc = "returned" /\ cCalls = <<"Link", "CopyFile">> /\ cTo = FsCopy
SymlinkRecreated ==
  /\ cPc = "returned" /\ cCalls = <<"Readlink", "Symlink">>
  /\ ~cIn.target.abs /\ cTo.kind = "link"

(* -------------------------- pass-through arguments ---------------------- *)
argsRest == <<mainVars, asyncVars, limVars, httpVars, fsVars, dryVars,
              onceVars, poolVars, daemonVars, copyVars>>

\* the task names of the pipeline: build and test can be named on the
\* command line, prepare only comes in as a dependency
ArgTargets == {"build", "test"}
ArgTasks == ArgTargets \cup {"prepare"}
ArgWords == {"--watch", "x"}

SeqsUpTo(S, lo, hi) == UNION {[1..k -> S] : k \in lo..hi}

NotRun == [ran |-> FALSE, args |-> <<>>]

\* getCmd's RunE: the arguments before the dash are the targets, as typed,
\* those after it opts.runOpts.passThroughArgs
InitArgs ==
  /\ MainOff
  /\ AsyncOff
  /\ LimOff
  /\ HttpOff
  /\ FsOff
  /\ DryOff
  /\ OnceOff
  /\ PoolOff
  /\ DaemonOff
  /\ CopyOff
  /\ gIn \in [Targets : SeqsUpTo(ArgTargets, 1, MaxTargets),
              passThroughArgs : SeqsUpTo(ArgWords, 0, MaxPassThrough)]
  /\ gHashed = [task \in ArgTasks |-> NotRun]
  /\ gArgv = [task \in ArgTasks |-> NotRun]

\* runSpec.ArgsForTask: the pass-through arguments appended once for every
\* element of rs.Targets equal to the task
RECURSIVE ArgsForTask(_, _, _)
ArgsForTask(targets, passThroughArgs, task) ==
  IF targets = <<>> THEN <<>>
  ELSE (IF Head(targets) = task THEN passThroughArgs ELSE <<>>)
         \o ArgsForTask(Tail(targets), passThroughArgs, task)

\* exec: "passThroughArgs := e.rs.ArgsForTask(pt.Task)" and
\* CalculateTaskHash(pt, deps, passThroughArgs)
ArgsExecHash(task) ==
  /\ ~gHashed[task].ran
  /\ gHashed' =
       [gHashed EXCEPT ![task] =
          [ran |-> TRUE,
           args |-> ArgsForTask(gIn.Targets, gIn.passThroughArgs, task)]]
  /\ UNCHANGED <<gIn, gArgv>>
  /\ UNCHANGED argsRest

\* exec: argsactual is "run", the task, then the same passThroughArgs
ArgsExecCommand(task) ==
  /\ gHashed[task].ran
  /\ ~gArgv[task].ran
  /\ gArgv' =
       [gArgv EXCEPT ![task] =
          [ran |-> TRUE, args |-> <<"run", task>> \o gHashed[task].args]]
  /\ UNCHANGED <<gIn, gHashed>>
  /\ UNCHANGED argsRest

NextArgs ==
  \/ \E task \in ArgTasks : ArgsExecHash(task)
  \/ \E task \in ArgTasks : ArgsExecCommand(task)

SpecArgs == InitArgs /\ [][NextArgs]_vars

\* the task is one of the requested targets
Requested(task) == task \in Range(gIn.Targets)

\* the command line is "run", the task and the arguments the hash was given
SameArgsForHashAndCommand ==
  \A task \in ArgTasks :
    gArgv[task].ran => gArgv[task].args = <<"run", task>> \o gHashed[task].args

\* C40: pass-through arguments reach exactly the named tasks: for a task
\* that is one of the targets ArgsForTask returns the pass-through list
\* unchanged, for every other task the empty list, and the same list goes
\* into the task's hash and onto the child's command line.
C40_PassThroughToNamedTasks ==
  /\ \A task \in ArgTasks :
       gHashed[task].ran =>
         gHashed[task].args =
           IF Requested(task) THEN gIn.passThroughArgs ELSE <<>>
  /\ SameArgsForHashAndCommand

\* "turbo run build build -- --watch" runs "<packageManager> run build
\* --watch --watch"
DuplicateTargetRepeatsArgs ==
  /\ gIn.Targets = <<"build", "build">>
  /\ gIn.passThroughArgs = <<"--watch">>
  /\ gArgv["build"].args = <<"run", "build", "--watch", "--watch">>

\* what does hold: a task named exactly once gets the list unchanged, a task
\* not named gets none, and hash and command line agree
PassThroughWhenNamedOnce ==
  /\ \A task \in ArgTasks :
       gHashed[task].ran =>
         LET n == Cardinality({i \in DOMAIN gIn.Targets : gIn.Targets[i] = task})
         IN /\ n = 1 => gHashed[task].args = gIn.passThroughArgs
            /\ n = 0 => gHashed[task].args = <<>>
  /\ SameArgsForHashAndCommand

====
